---------------------------- MODULE Spec2Model ----------------------------
(***************************************************************************)
(* TradeGravity: the provider ingestion layer (Comtrade and WITS) and the  *)
(* collector run loop, as state machines.                                  *)
(*                                                                         *)
(*   SpecReq       comtrade.Provider.doRequest: key rotation, retries,     *)
(*                 the rate limiter's Wait and the 429 backoff sleep       *)
(*   SpecRefs      comtrade.Provider.ensureReferences under concurrent use *)
(*   SpecSeries    FetchSeries / FetchLatest of both providers             *)
(*   SpecCollector cmd/collector runCollector / collectObservations        *)
(***************************************************************************)
EXTENDS Integers, Sequences, FiniteSets, TLC

VARIABLES
    \* ---- comtrade doRequest (one logical request) ----
    cfgPrimary,     \* Config.APIKeyPrimary
    cfgSecondary,   \* Config.APIKeySecondary
    cfgMaxRetries,  \* Config.MaxRetries
    ctxDone,        \* the caller's context is cancelled
    tokens,         \* len(limiter.tokens)
    reqPc,          \* position of the goroutine inside doRequest
    keyIdx,         \* index of the candidate key in use (1-based)
    attempt,        \* the inner loop's attempt counter (0-based)
    lastErr,        \* doRequest's lastErr
    wake,           \* the case that last woke the goroutine parked in a select
                    \* ("none" while it is parked and nothing has fired)
    getLog,         \* the HTTP GETs issued so far: key and response
    reqResult       \* what doRequest returned

reqVars == <<cfgPrimary, cfgSecondary, cfgMaxRetries, ctxDone, tokens, reqPc,
             keyIdx, attempt, lastErr, wake, getLog, reqResult>>

VARIABLES
    \* ---- comtrade ensureReferences (one Provider, several goroutines) ----
    refsLoaded,     \* Provider.refsLoaded
    reporters,      \* Provider.reporters: the load it was published by (0: none)
    reporterCode,   \* Provider.reporterCode: the load it was published by
    partnerCode,    \* Provider.partnerCode: the load it was published by
    refPc,          \* per goroutine: its position inside ensureReferences
    refCalls,       \* per goroutine: ensureReferences calls made so far
    refLocal,       \* per goroutine: the load it is carrying out (0: none)
    loadsStarted,   \* reference loads begun so far on this Provider
    reportersReqs,  \* requests sent to the reporters endpoint
    partnersReqs,   \* requests sent to the partners endpoint
    refFailures     \* reference fetches that failed

refVars == <<refsLoaded, reporters, reporterCode, partnerCode, refPc, refCalls,
             refLocal, loadsStarted, reportersReqs, partnersReqs, refFailures>>

VARIABLES
    \* ---- one FetchSeries / FetchLatest call on a provider ----
    serProvider,        \* "comtrade" or "wits"
    serOp,              \* "series" or "latest"
    serFrom,            \* FetchSeries' from
    serTo,              \* FetchSeries' to
    cfgLookback,        \* comtrade Config.LookbackYears
    cfgAllowFallback,   \* comtrade Config.AllowISO3Fallback
    cfgAutoLatestYear,  \* wits Config.AutoLatestYear
    witsYearMap,        \* wits Provider.yearMap
    serPc,              \* position inside the call
    serRefsErr,         \* comtrade FetchSeries' refsErr
    serCodes,           \* comtrade FetchSeries' reporterCode, partnerCode
    serYears,           \* comtrade FetchSeries' years
    serIdx,             \* comtrade FetchSeries' position in years (1-based)
    serObs,             \* comtrade FetchSeries' observations
    serYearValue,       \* wits FetchSeries' yearValue
    serLog,             \* comtrade: the data requests issued so far, with their answers
    witsLog,            \* wits: the requests issued so far, with their answers
    serSeries,          \* what FetchSeries returned
    serLatest           \* what FetchLatest returned

serVars == <<serProvider, serOp, serFrom, serTo, cfgLookback, cfgAllowFallback,
             cfgAutoLatestYear, witsYearMap, serPc, serRefsErr, serCodes, serYears,
             serIdx,
             serObs, serYearValue, serLog, witsLog, serSeries, serLatest>>

VARIABLES
    \* ---- one run of the collector (cmd/collector) ----
    colProvider,        \* runCollector's providerID
    colReporters,       \* runCollector's reporters (their ISO3)
    colPartners,        \* runCollector's partners
    colFlows,           \* runCollector's flowList
    historyYears,       \* the -history-years flag
    storedKeys,         \* the observation keys the store lists for a slice
    storedYears,        \* collectObservations' existingYears
    colPc,              \* position inside the run
    colIdx,             \* position in the reporter x partner x flow loop (1-based)
    colLatest,          \* collectObservations' latest
    colTarget,          \* collectObservations' targetYear
    colSeries,          \* collectObservations' series
    requests,           \* runCollector's counters
    success,
    failed,
    skipped,
    colObservations,    \* runCollector's observations
    colCalls,           \* the provider calls made so far
    upserts,            \* the UpsertObservations calls made so far
    colResult           \* what runCollector returned

colVars == <<colProvider, colReporters, colPartners, colFlows, historyYears,
             storedKeys, storedYears, colPc, colIdx, colLatest, colTarget, colSeries,
             requests, success, failed, skipped, colObservations, colCalls,
             upserts, colResult>>

VARIABLES
    \* ---- one resolveCode call ----
    rcKind,             \* resolveCode's kind
    rcIso3,             \* resolveCode's iso3
    rcCodes,            \* resolveCode's codes (the provider's code map)
    rcCodesBefore,      \* the code map as it was when the call began
    rcAllowFallback,    \* Config.AllowISO3Fallback
    rcPc,               \* "call" before, "done" after the call
    rcResult            \* what resolveCode returned

rcVars == <<rcKind, rcIso3, rcCodes, rcCodesBefore, rcAllowFallback, rcPc, rcResult>>

VARIABLES
    \* ---- one pickLatest call ----
    plList,             \* pickLatest's observations
    plPc,               \* "call" before, "done" after the call
    plResult            \* what pickLatest returned

plVars == <<plList, plPc, plResult>>

VARIABLES
    \* ---- one normalizePeriod / periodFromRow call ----
    npFn,               \* the function called
    npRaw,              \* normalizePeriod's raw
    npRow,              \* periodFromRow's row, as getString reads its fields
    npPc,               \* "call" before, "done" after the call
    npResult            \* what the call returned

npVars == <<npFn, npRaw, npRow, npPc, npResult>>

VARIABLES
    \* ---- one getValue call ----
    gvRow,              \* the row: a map from its keys to their values
    gvKeys,             \* the candidate keys, in the caller's order
    gvPc,               \* "call" before, "done" after the call
    gvResult            \* what the call returned

gvVars == <<gvRow, gvKeys, gvPc, gvResult>>

VARIABLES
    \* ---- wits latestYear, called by several goroutines on one Provider ----
    lyMap,              \* Provider.yearMap
    lyPc,               \* each caller's position inside latestYear
    lyLatest,           \* each caller's latest (the year it found)
    lyCalls,            \* the latestYear calls each caller has started
    lyReqs,             \* the data-availability requests issued so far
    lyWrites,           \* the assignments to yearMap[cacheKey] made so far
    lyFailures          \* the latestYear calls that returned an error

lyVars == <<lyMap, lyPc, lyLatest, lyCalls, lyReqs, lyWrites, lyFailures>>

VARIABLES
    \* ---- comtrade ListReporters ----
    refListed           \* the reporters each caller's last ListReporters returned

lrVars == <<refListed>>

vars == <<reqVars, refVars, serVars, colVars, rcVars, plVars, npVars, gvVars, lyVars, lrVars>>

(***************************************************************************)
(* Bounds of the model.                                                    *)
(***************************************************************************)
MaxRetriesBound == 2

\* goroutines calling ensureReferences, and calls each of them makes
NumCallers == 2

MaxRefCalls == 2

\* the largest Config.LookbackYears tried
MaxLookback == 2

\* the largest -history-years tried
MaxHistoryYears == 1

\* the longest list handed to pickLatest
MaxListLen == 3

\* the first year a caller asks for; time.Now() is three years later
BaseYear == 2020

(***************************************************************************)
(* Program constants.                                                      *)
(***************************************************************************)
defaultRateLimitBurst == 2

(***************************************************************************)
(* Strings are sequences of one-character strings.                         *)
(***************************************************************************)
DigitChars == <<"0", "1", "2", "3", "4", "5", "6", "7", "8", "9">>

IsDigit(c) == \E n \in 1..Len(DigitChars) : DigitChars[n] = c

DigitVal(c) == (CHOOSE n \in 1..Len(DigitChars) : DigitChars[n] = c) - 1

isDigits(value) == \A i \in 1..Len(value) : IsDigit(value[i])

RECURSIVE TrimLeft(_)
TrimLeft(s) == IF s # <<>> /\ Head(s) = " " THEN TrimLeft(Tail(s)) ELSE s

RECURSIVE TrimRight(_)
TrimRight(s) ==
    IF s # <<>> /\ s[Len(s)] = " " THEN TrimRight(SubSeq(s, 1, Len(s) - 1)) ELSE s

\* strings.TrimSpace
TrimSpace(s) == TrimRight(TrimLeft(s))

UpperChar(c) ==
    CASE c = "k" -> "K" [] c = "o" -> "O" [] c = "r" -> "R"
      [] c = "u" -> "U" [] c = "s" -> "S" [] c = "a" -> "A"
      [] c = "q" -> "Q" [] c = "x" -> "X"
      [] OTHER -> c

\* strings.ToUpper
ToUpper(s) == [i \in 1..Len(s) |-> UpperChar(s[i])]

\* strconv.Atoi on a string of digits
RECURSIVE AtoiDigits(_)
AtoiDigits(s) ==
    IF s = <<>> THEN 0
    ELSE 10 * AtoiDigits(SubSeq(s, 1, Len(s) - 1)) + DigitVal(s[Len(s)])

\* strconv.Itoa on a natural number
RECURSIVE Itoa(_)
Itoa(n) ==
    IF n < 10 THEN <<DigitChars[n + 1]>>
    ELSE Itoa(n \div 10) \o <<DigitChars[(n % 10) + 1]>>

RECURSIVE PadLeft(_, _)
PadLeft(s, width) == IF Len(s) >= width THEN s ELSE PadLeft(<<"0">> \o s, width)

\* fmt.Sprintf("%04d", n): the sign counts towards the width
Sprintf04d(n) ==
    IF n < 0 THEN <<"-">> \o PadLeft(Itoa(0 - n), 3) ELSE PadLeft(Itoa(n), 4)

\* fmt.Sprintf("%02d", n)
Sprintf02d(n) ==
    IF n < 0 THEN <<"-">> \o PadLeft(Itoa(0 - n), 1) ELSE PadLeft(Itoa(n), 2)

\* strings.Contains
Contains(s, sep) ==
    \E i \in 1..(Len(s) - Len(sep) + 1) : SubSeq(s, i, i + Len(sep) - 1) = sep

\* strings.Split for a non-empty separator
RECURSIVE Split(_, _)
Split(s, sep) ==
    IF ~Contains(s, sep) THEN <<s>>
    ELSE LET i == CHOOSE k \in 1..(Len(s) - Len(sep) + 1) :
                     /\ SubSeq(s, k, k + Len(sep) - 1) = sep
                     /\ \A j \in 1..(k - 1) : SubSeq(s, j, j + Len(sep) - 1) # sep
         IN  <<SubSeq(s, 1, i - 1)>> \o Split(SubSeq(s, i + Len(sep), Len(s)), sep)

\* the key values a configuration may hold
KeyValues == {<<>>, <<" ">>, <<"k", "1">>, <<"k", "2">>}

(***************************************************************************)
(* Response bodies.  A body is described by what isQuotaExceeded reads of  *)
(* it: whether it is empty, whether it decodes as a JSON object, whether   *)
(* that object's "message" is a string, whether the message contains       *)
(* "quota", and whether the raw text contains "quota" (case-insensitive).  *)
(***************************************************************************)
Body(empty, jsonObj, msgIsString, msgHasQuota, textHasQuota, data) ==
    [empty |-> empty, jsonObj |-> jsonObj, msgIsString |-> msgIsString,
     msgHasQuota |-> msgHasQuota, textHasQuota |-> textHasQuota, data |-> data]

EmptyBody      == Body(TRUE, FALSE, FALSE, FALSE, FALSE, "")
TextQuotaBody  == Body(FALSE, FALSE, FALSE, FALSE, TRUE, "")
JsonQuotaBody  == Body(FALSE, TRUE, TRUE, TRUE, TRUE, "")
JsonDeniedBody == Body(FALSE, TRUE, TRUE, FALSE, FALSE, "")
\* {"message": "access denied", "detail": "quota exceeded"}
JsonHiddenBody == Body(FALSE, TRUE, TRUE, FALSE, TRUE, "")
DataBody(d)    == Body(FALSE, TRUE, FALSE, FALSE, FALSE, d)

ForbiddenBodies ==
    {EmptyBody, TextQuotaBody, JsonQuotaBody, JsonDeniedBody, JsonHiddenBody}

isQuotaExceeded(body) ==
    IF body.empty THEN FALSE
    ELSE IF body.jsonObj /\ body.msgIsString THEN body.msgHasQuota
    ELSE body.textHasQuota

(***************************************************************************)
(* What one HTTP GET can bring back: a response with a status and a body,  *)
(* a response whose body cannot be read (readErr), or no response at all   *)
(* (status 0: client.Do failed).                                           *)
(***************************************************************************)
Resp(status, body, readErr) ==
    [status |-> status, body |-> body, readErr |-> readErr]

Responses ==
    {Resp(200, DataBody(d), FALSE) : d \in {"d1", "d2"}}
    \cup {Resp(200, EmptyBody, TRUE), Resp(401, EmptyBody, TRUE)}
    \cup {Resp(401, JsonDeniedBody, FALSE)}
    \cup {Resp(403, b, FALSE) : b \in ForbiddenBodies}
    \cup {Resp(429, EmptyBody, FALSE)}
    \cup {Resp(500, EmptyBody, FALSE)}
    \cup {Resp(0, EmptyBody, FALSE)}

(***************************************************************************)
(* Errors.  type: "config", "ctx" (ctx.Err() itself), "transport" (the     *)
(* http client's or io.ReadAll's error), "quota" (wraps ErrQuotaExceeded), *)
(* "http" ("comtrade: request failed (...)").                              *)
(***************************************************************************)
Err(type, status, body) ==
    [type |-> type, status |-> status, body |-> body, detail |-> <<>>]

\* an error whose message names something (a kind, an ISO3)
ErrNaming(type, detail) == [Err(type, 0, EmptyBody) EXCEPT !.detail = detail]

NoErr == Err("nil", 0, EmptyBody)

CtxErr == Err("ctx", 0, EmptyBody)

\* errors.Is(err, ErrQuotaExceeded)
IsQuotaErr(err) == err.type = "quota"

Ok(body)  == [kind |-> "ok", body |-> body, err |-> NoErr]
Fail(err) == [kind |-> "err", body |-> EmptyBody, err |-> err]
NoResult  == [kind |-> "none", body |-> EmptyBody, err |-> NoErr]

(***************************************************************************)
(* doRequest: the candidate keys, the attempts per key.                    *)
(***************************************************************************)
\* a key counts as configured as soon as it is not the empty string
CandidateKeysUntrimmed(primary, secondary) ==
    (IF primary # <<>> THEN <<primary>> ELSE <<>>)
    \o (IF secondary # <<>> /\ secondary # primary
        THEN <<secondary>> ELSE <<>>)

CandidateKeys(primary, secondary) ==
    (IF TrimSpace(primary) # <<>> THEN <<primary>> ELSE <<>>)
    \o (IF TrimSpace(secondary) # <<>> /\ secondary # primary
        THEN <<secondary>> ELSE <<>>)

Keys == CandidateKeys(cfgPrimary, cfgSecondary)

\* an off-by-one attempt budget
AttemptsOffByOne(maxRetries) == IF maxRetries < 1 THEN 1 ELSE maxRetries

\* one attempt more than MaxRetries+1
AttemptsOneMore(maxRetries) == IF maxRetries + 2 < 1 THEN 1 ELSE maxRetries + 2

Attempts(maxRetries) == IF maxRetries + 1 < 1 THEN 1 ELSE maxRetries + 1

(***************************************************************************)
(* doRequestWithKey after the limiter's Wait: what it returns for a        *)
(* response, as (err, status, body).                                       *)
(***************************************************************************)
KeyResult(resp) ==
    IF resp.status = 0
    THEN [err |-> Err("transport", 0, EmptyBody), status |-> 0, body |-> EmptyBody]
    ELSE IF resp.readErr
    THEN [err |-> Err("transport", resp.status, EmptyBody),
          status |-> resp.status, body |-> EmptyBody]
    ELSE IF resp.status < 200 \/ resp.status >= 300
    THEN IF resp.status = 403 /\ isQuotaExceeded(resp.body)
         THEN [err |-> Err("quota", resp.status, resp.body),
               status |-> resp.status, body |-> EmptyBody]
         ELSE [err |-> Err("http", resp.status, resp.body),
               status |-> resp.status, body |-> EmptyBody]
    ELSE [err |-> NoErr, status |-> resp.status, body |-> resp.body]

\* doRequestWithKey when the limiter's Wait returned the context's error
WaitFailed == [err |-> CtxErr, status |-> 0, body |-> EmptyBody]

(***************************************************************************)
(* doRequest's decision after a failed attempt.                            *)
(***************************************************************************)
\* an error without a status (the context's, the transport's) abandons the key
\* instead of ending the request
NextStepBreakOnNoStatus(status, att, attempts) ==
    IF status = 401 \/ status = 403 \/ status = 0 THEN "break"
    ELSE IF status = 429 /\ att < attempts - 1 THEN "sleep"
    ELSE "return"

\* an auth failure is retried on the same key like a 429
NextStepRetryAuth(status, att, attempts) ==
    IF status = 403 THEN "break"
    ELSE IF (status = 429 \/ status = 401) /\ att < attempts - 1 THEN "sleep"
    ELSE "return"

NextStep(status, att, attempts) ==
    IF status = 401 \/ status = 403 THEN "break"
    ELSE IF status = 429 /\ att < attempts - 1 THEN "sleep"
    ELSE "return"

\* the error doRequest remembers after a failed attempt (lastErr = err), here
\* keeping the first one instead
LastErrKeepFirst(prev, err) == IF prev = NoErr THEN err ELSE prev

\* the error doRequest remembers after a failed attempt: lastErr = err
LastErr(prev, err) == err

\* The body of doRequest's inner loop once doRequestWithKey has returned r.
HandleAttempt(r) ==
    IF r.err = NoErr
    THEN /\ reqPc' = "done"
         /\ reqResult' = Ok(r.body)
         /\ UNCHANGED <<keyIdx, attempt, lastErr>>
    ELSE LET step == NextStep(r.status, attempt, Attempts(cfgMaxRetries)) IN
         /\ lastErr' = LastErr(lastErr, r.err)
         /\ CASE step = "break" ->
                   IF keyIdx < Len(Keys)
                   THEN /\ keyIdx' = keyIdx + 1
                        /\ attempt' = 0
                        /\ reqPc' = "wait"
                        /\ UNCHANGED reqResult
                   ELSE /\ reqPc' = "done"
                        /\ reqResult' = Fail(lastErr')
                        /\ UNCHANGED <<keyIdx, attempt>>
              [] step = "sleep" ->
                   /\ reqPc' = "sleep"
                   /\ UNCHANGED <<keyIdx, attempt, reqResult>>
              [] OTHER ->
                   /\ reqPc' = "done"
                   /\ reqResult' = Fail(r.err)
                   /\ UNCHANGED <<keyIdx, attempt>>

\* the rest of the system is not running while one request is followed
ReqFrame == UNCHANGED <<refVars, serVars, colVars, rcVars, plVars, npVars, gvVars, lyVars, lrVars>>

ReqInit ==
    /\ cfgPrimary \in KeyValues
    /\ cfgSecondary \in KeyValues
    /\ cfgMaxRetries \in 1..MaxRetriesBound
    /\ ctxDone = FALSE
    /\ tokens = defaultRateLimitBurst
    /\ reqPc = "start"
    /\ keyIdx = 0
    /\ attempt = 0
    /\ lastErr = NoErr
    /\ wake = "none"
    /\ getLog = <<>>
    /\ reqResult = NoResult

\* no request is running
ReqIdle ==
    /\ cfgPrimary = <<"k", "1">>
    /\ cfgSecondary = <<>>
    /\ cfgMaxRetries = 1
    /\ ctxDone = FALSE
    /\ tokens = defaultRateLimitBurst
    /\ reqPc = "start"
    /\ keyIdx = 0
    /\ attempt = 0
    /\ lastErr = NoErr
    /\ wake = "none"
    /\ getLog = <<>>
    /\ reqResult = NoResult

\* doRequest up to the key loop
ReqStart ==
    /\ reqPc = "start"
    /\ IF Len(Keys) = 0
       THEN /\ reqPc' = "done"
            /\ reqResult' = Fail(Err("config", 0, EmptyBody))
            /\ UNCHANGED keyIdx
       ELSE /\ reqPc' = "wait"
            /\ keyIdx' = 1
            /\ UNCHANGED reqResult
    /\ UNCHANGED <<cfgPrimary, cfgSecondary, cfgMaxRetries, ctxDone, tokens,
                   attempt, lastErr, wake, getLog>>
    /\ ReqFrame

\* rateLimiter.Wait: the select over ctx.Done() and the token channel
LimiterWait ==
    /\ reqPc = "wait"
    /\ \/ /\ ctxDone
          /\ HandleAttempt(WaitFailed)
          /\ UNCHANGED <<tokens, wake>>
       \/ /\ tokens > 0
          /\ tokens' = tokens - 1
          /\ reqPc' = "get"
          /\ UNCHANGED <<keyIdx, attempt, lastErr, wake, reqResult>>
       \/ /\ ~ctxDone
          /\ tokens = 0
          /\ reqPc' = "parked"
          /\ wake' = "none"
          /\ UNCHANGED <<tokens, keyIdx, attempt, lastErr, reqResult>>
    /\ UNCHANGED <<cfgPrimary, cfgSecondary, cfgMaxRetries, ctxDone, getLog>>
    /\ ReqFrame

\* rateLimiter.Wait resumes: the case that woke the goroutine
WaitWake ==
    /\ reqPc = "parked"
    /\ wake # "none"
    /\ IF wake = "token"
       THEN /\ reqPc' = "get"
            /\ UNCHANGED <<keyIdx, attempt, lastErr, reqResult>>
       ELSE HandleAttempt(WaitFailed)
    /\ UNCHANGED <<cfgPrimary, cfgSecondary, cfgMaxRetries, ctxDone, tokens,
                   wake, getLog>>
    /\ ReqFrame

\* doRequestWithKey after Wait: the GET, and doRequest's handling of it
HttpGet ==
    /\ reqPc = "get"
    /\ \E resp \in Responses :
          /\ getLog' = Append(getLog, [key |-> Keys[keyIdx], resp |-> resp])
          /\ HandleAttempt(KeyResult(resp))
    /\ UNCHANGED <<cfgPrimary, cfgSecondary, cfgMaxRetries, ctxDone, tokens,
                   wake>>
    /\ ReqFrame

\* sleepWithContext: the select over ctx.Done() and the timer
SleepSelect ==
    /\ reqPc = "sleep"
    /\ IF ctxDone
       THEN /\ reqPc' = "done"
            /\ reqResult' = Fail(CtxErr)
            /\ UNCHANGED wake
       ELSE /\ reqPc' = "sleeping"
            /\ wake' = "none"
            /\ UNCHANGED reqResult
    /\ UNCHANGED <<cfgPrimary, cfgSecondary, cfgMaxRetries, ctxDone, tokens,
                   keyIdx, attempt, lastErr, getLog>>
    /\ ReqFrame

\* sleepWithContext resumes
SleepWake ==
    /\ reqPc = "sleeping"
    /\ wake # "none"
    /\ IF wake = "timer"
       THEN /\ attempt' = attempt + 1
            /\ reqPc' = "wait"
            /\ UNCHANGED reqResult
       ELSE /\ reqPc' = "done"
            /\ reqResult' = Fail(CtxErr)
            /\ UNCHANGED attempt
    /\ UNCHANGED <<cfgPrimary, cfgSecondary, cfgMaxRetries, ctxDone, tokens,
                   keyIdx, lastErr, wake, getLog>>
    /\ ReqFrame

\* the backoff timer fires
TimerFire ==
    /\ reqPc = "sleeping"
    /\ wake = "none"
    /\ wake' = "timer"
    /\ UNCHANGED <<cfgPrimary, cfgSecondary, cfgMaxRetries, ctxDone, tokens,
                   reqPc, keyIdx, attempt, lastErr, getLog, reqResult>>
    /\ ReqFrame

\* the caller cancels the context
Cancel ==
    /\ ~ctxDone
    /\ reqPc # "done"
    /\ ctxDone' = TRUE
    /\ wake' = IF reqPc \in {"parked", "sleeping"} /\ wake = "none"
               THEN "ctx" ELSE wake
    /\ UNCHANGED <<cfgPrimary, cfgSecondary, cfgMaxRetries, tokens, reqPc,
                   keyIdx, attempt, lastErr, getLog, reqResult>>
    /\ ReqFrame

\* the ticker goroutine with a send that is not dropped when the bucket is full
RefillUncapped ==
    /\ reqPc # "done"
    /\ IF reqPc = "parked" /\ wake = "none"
       THEN /\ wake' = "token"
            /\ UNCHANGED tokens
       ELSE /\ tokens' = tokens + 1
            /\ UNCHANGED wake
    /\ UNCHANGED <<cfgPrimary, cfgSecondary, cfgMaxRetries, ctxDone, reqPc,
                   keyIdx, attempt, lastErr, getLog, reqResult>>
    /\ ReqFrame

\* the limiter's ticker goroutine: a non-blocking send of one token
Refill ==
    /\ reqPc # "done"
    /\ IF reqPc = "parked" /\ wake = "none"
       THEN /\ wake' = "token"
            /\ UNCHANGED tokens
       ELSE /\ tokens < defaultRateLimitBurst
            /\ tokens' = tokens + 1
            /\ UNCHANGED wake
    /\ UNCHANGED <<cfgPrimary, cfgSecondary, cfgMaxRetries, ctxDone, reqPc,
                   keyIdx, attempt, lastErr, getLog, reqResult>>
    /\ ReqFrame

ReqNext ==
    \/ ReqStart
    \/ LimiterWait
    \/ WaitWake
    \/ HttpGet
    \/ SleepSelect
    \/ SleepWake
    \/ TimerFire
    \/ Cancel
    \/ Refill


(***************************************************************************)
(* Properties of doRequest.                                                *)
(***************************************************************************)
NumGets == Len(getLog)

\* a response that was received in full
Received(e) == e.resp.status # 0 /\ ~e.resp.readErr

Is2xx(e) == Received(e) /\ e.resp.status >= 200 /\ e.resp.status < 300

Is429(e) == Received(e) /\ e.resp.status = 429

IsAuth(e) == e.resp.status = 401 \/ e.resp.status = 403

\* a 403 whose body contains "quota" (case-insensitive)
IsQuota403(e) == Received(e) /\ e.resp.status = 403 /\ e.resp.body.textHasQuota

\* the position of a key in the candidate list
KeyPos(key) == CHOOSE i \in 1..Len(Keys) : Keys[i] = key

\* C1 (as claimed): with two distinct non-empty keys, a 403 "quota" response
\* on the primary key ends the operation with that error: it is the last GET
\* of the request, nothing is issued with the secondary key.
C1_QuotaEndsOperation ==
    Len(Keys) = 2 =>
        \A i \in 1..NumGets :
            (getLog[i].key = Keys[1] /\ IsQuota403(getLog[i])) =>
                /\ i = NumGets
                /\ reqPc = "done"
                /\ reqResult = Fail(KeyResult(getLog[i].resp).err)

\* C2 (as claimed): once any attempt of a doRequest call has received a 403
\* whose body contains "quota", the error doRequest returns matches
\* ErrQuotaExceeded.
C2_QuotaSentinelReturned ==
    (reqPc = "done" /\ \E i \in 1..NumGets : IsQuota403(getLog[i])) =>
        (reqResult.kind = "err" /\ IsQuotaErr(reqResult.err))

\* C4: when the context is cancelled while doRequest is parked in the rate
\* limiter's Wait or in the backoff sleep, the goroutine resumes straight into
\* doRequest's return of the context's own error: it is never again at a GET,
\* at a Wait or on another key.
C4_CancelWhileBlocked ==
    wake = "ctx" =>
        \/ reqPc \in {"parked", "sleeping"}
        \/ reqPc = "done" /\ reqResult = Fail(CtxErr)

C4_Witness ==
    /\ wake = "ctx"
    /\ reqPc = "done"
    /\ reqResult = Fail(CtxErr)
    /\ Len(Keys) = 2
    /\ keyIdx = 1
    /\ NumGets >= 1

\* C9: a 401 or 403 response ends all attempts with its key (no later GET uses
\* that key), the next GET, if any, uses the next candidate key, and after
\* [401] on the primary and [200] on the secondary the call has returned the
\* secondary's body after exactly two GETs.
C9_AuthFailureRotatesKey ==
    /\ \A i \in 1..NumGets :
          IsAuth(getLog[i]) =>
              /\ \A j \in (i + 1)..NumGets : getLog[j].key # getLog[i].key
              /\ i < NumGets => KeyPos(getLog[i + 1].key) = KeyPos(getLog[i].key) + 1
              /\ i = NumGets =>
                    IF KeyPos(getLog[i].key) = Len(Keys)
                    THEN reqPc = "done" /\ reqResult.kind = "err"
                    ELSE /\ keyIdx = KeyPos(getLog[i].key) + 1
                         /\ attempt = 0
                         /\ reqPc = "done" => reqResult = Fail(CtxErr)
    /\ ( /\ Len(Keys) = 2
         /\ NumGets >= 2
         /\ getLog[1].resp.status = 401
         /\ Is2xx(getLog[2]) ) =>
            /\ NumGets = 2
            /\ getLog[1].key = Keys[1]
            /\ getLog[2].key = Keys[2]
            /\ reqPc = "done"
            /\ reqResult = Ok(getLog[2].resp.body)

C9_Witness ==
    /\ Len(Keys) = 2
    /\ NumGets = 2
    /\ getLog[1].resp.status = 401
    /\ getLog[1].key = Keys[1]
    /\ Is2xx(getLog[2])
    /\ getLog[2].key = Keys[2]
    /\ reqPc = "done"
    /\ reqResult.kind = "ok"

\* C10: after k <= MaxRetries 429 responses the request is still on the
\* primary key and has not failed, and when response k+1 is 2xx the call has
\* returned that body after exactly k+1 GETs, all with the primary key; a 2xx
\* response is always the last GET.
C10_RetryThenSuccess ==
    /\ \A k \in 1..cfgMaxRetries :
          (NumGets = k /\ \A j \in 1..k : Is429(getLog[j])) =>
              /\ keyIdx = 1
              /\ reqPc = "done" => reqResult = Fail(CtxErr)
    /\ \A k \in 0..cfgMaxRetries :
          ( /\ NumGets >= k + 1
            /\ \A j \in 1..k : Is429(getLog[j])
            /\ Is2xx(getLog[k + 1]) ) =>
                /\ NumGets = k + 1
                /\ \A j \in 1..(k + 1) : getLog[j].key = Keys[1]
                /\ reqPc = "done"
                /\ reqResult = Ok(getLog[k + 1].resp.body)
    /\ \A i \in 1..NumGets : Is2xx(getLog[i]) => i = NumGets

C10_Witness ==
    /\ cfgMaxRetries = 2
    /\ NumGets = 3
    /\ Is429(getLog[1])
    /\ Is429(getLog[2])
    /\ Is2xx(getLog[3])
    /\ reqPc = "done"
    /\ reqResult = Ok(getLog[3].resp.body)

(***************************************************************************)
(* comtrade.Provider.ensureReferences, called by several goroutines on one *)
(* Provider.  Each mutex-protected section holds no blocking call and is   *)
(* one step; the two fetches happen outside the mutex.                     *)
(***************************************************************************)
Callers == 1..NumCallers

RefIdle ==
    /\ refsLoaded = FALSE
    /\ reporters = 0
    /\ reporterCode = 0
    /\ partnerCode = 0
    /\ refPc = [g \in Callers |-> "idle"]
    /\ refCalls = [g \in Callers |-> 0]
    /\ refLocal = [g \in Callers |-> 0]
    /\ loadsStarted = 0
    /\ reportersReqs = 0
    /\ partnersReqs = 0
    /\ refFailures = 0

RefFrame == UNCHANGED <<reqVars, serVars, colVars, rcVars, plVars, npVars, gvVars, lyVars, lrVars>>

\* the first mutex section ignoring the flag: every call loads
SkipsLoadNever(loaded) == FALSE

\* what the first mutex section decides: skip the load when the flag is set
SkipsLoad(loaded) == loaded

\* ensureReferences: Lock, read refsLoaded, Unlock
EnsureCheck(g) ==
    /\ refPc[g] = "idle"
    /\ refCalls[g] < MaxRefCalls
    /\ refCalls' = [refCalls EXCEPT ![g] = @ + 1]
    /\ IF SkipsLoad(refsLoaded)
       THEN UNCHANGED <<refPc, refLocal, loadsStarted>>
       ELSE /\ refPc' = [refPc EXCEPT ![g] = "reporters"]
            /\ loadsStarted' = loadsStarted + 1
            /\ refLocal' = [refLocal EXCEPT ![g] = loadsStarted + 1]
    /\ UNCHANGED <<refsLoaded, reporters, reporterCode, partnerCode,
                   reportersReqs, partnersReqs, refFailures>>
    /\ RefFrame

\* fetchReferences(ReportersURL, true): the request, parsing, "no reporters"
FetchReporters(g) ==
    /\ refPc[g] = "reporters"
    /\ reportersReqs' = reportersReqs + 1
    /\ \/ /\ refPc' = [refPc EXCEPT ![g] = "partners"]
          /\ UNCHANGED <<refFailures, refLocal>>
       \/ /\ refPc' = [refPc EXCEPT ![g] = "idle"]
          /\ refLocal' = [refLocal EXCEPT ![g] = 0]
          /\ refFailures' = refFailures + 1
    /\ UNCHANGED <<refsLoaded, reporters, reporterCode, partnerCode, refCalls,
                   loadsStarted, partnersReqs>>
    /\ RefFrame

\* fetchReferences(PartnersURL, false)
FetchPartners(g) ==
    /\ refPc[g] = "partners"
    /\ partnersReqs' = partnersReqs + 1
    /\ \/ /\ refPc' = [refPc EXCEPT ![g] = "publish"]
          /\ UNCHANGED <<refFailures, refLocal>>
       \/ /\ refPc' = [refPc EXCEPT ![g] = "idle"]
          /\ refLocal' = [refLocal EXCEPT ![g] = 0]
          /\ refFailures' = refFailures + 1
    /\ UNCHANGED <<refsLoaded, reporters, reporterCode, partnerCode, refCalls,
                   loadsStarted, reportersReqs>>
    /\ RefFrame

\* the publication with the partner codes left for a later section
PublishWithoutPartners(g) ==
    /\ refPc[g] = "publish"
    /\ reporters' = refLocal[g]
    /\ reporterCode' = refLocal[g]
    /\ refsLoaded' = TRUE
    /\ refPc' = [refPc EXCEPT ![g] = "idle"]
    /\ refLocal' = [refLocal EXCEPT ![g] = 0]
    /\ UNCHANGED <<partnerCode, refCalls, loadsStarted, reportersReqs, partnersReqs,
                   refFailures>>
    /\ RefFrame

\* ensureReferences: Lock, publish the three values and the flag, Unlock
Publish(g) ==
    /\ refPc[g] = "publish"
    /\ reporters' = refLocal[g]
    /\ reporterCode' = refLocal[g]
    /\ partnerCode' = refLocal[g]
    /\ refsLoaded' = TRUE
    /\ refPc' = [refPc EXCEPT ![g] = "idle"]
    /\ refLocal' = [refLocal EXCEPT ![g] = 0]
    /\ UNCHANGED <<refCalls, loadsStarted, reportersReqs, partnersReqs,
                   refFailures>>
    /\ RefFrame

\* no ListReporters call has returned
LrIdle == refListed = [g \in Callers |-> 0]

\* ListReporters once its ensureReferences has returned nil: Lock, copy
\* p.reporters, Unlock
ListCopy(g) ==
    /\ refPc[g] = "idle"
    /\ refsLoaded
    /\ refListed' = [refListed EXCEPT ![g] = reporters]
    /\ UNCHANGED <<reqVars, refVars, serVars, colVars, rcVars, plVars, npVars, gvVars, lyVars>>

RefNext ==
    \/ \E g \in Callers : EnsureCheck(g)
    \/ \E g \in Callers : FetchReporters(g)
    \/ \E g \in Callers : FetchPartners(g)
    \/ \E g \in Callers : Publish(g)
    \/ \E g \in Callers : ListCopy(g)

\* C3 (as claimed): while no reference fetch has failed, the reporters
\* endpoint and the partners endpoint are each requested at most once per
\* Provider, however the first ensureReferences calls interleave.
C3_SingleReferenceLoad ==
    refFailures = 0 => (reportersReqs <= 1 /\ partnersReqs <= 1)

(***************************************************************************)
(* FetchSeries and FetchLatest.  A request's answer is what doRequest and  *)
(* the decoder make of it; a period is kept as (type, year, sub): sub is   *)
(* the month of a Month period, the quarter of a Quarter period, else 0.   *)
(***************************************************************************)
KOR == <<"K", "O", "R">>

USA == <<"U", "S", "A">>

\* the raw ISO3 arguments of the call
RawReporter == <<" ", "k", "o", "r">>

RawPartner == <<"U", "S", "A">>

\* time.Now().UTC().Year()
CurrentYear == BaseYear + 3

\* the from / to arguments tried
YearInputs ==
    {<<>>, Sprintf04d(BaseYear), Sprintf04d(BaseYear + 2), <<"2", "1">>}

\* the code maps a successful reference load may have published
ReporterCodeMaps == {<<>>, KOR :> <<"4", "1", "0">>}

PartnerCodeMaps == {<<>>, USA :> <<"8", "4", "2">>}

ErrNoRecords == Err("comtrade.norecords", 0, EmptyBody)

WitsErrNoRecords == Err("wits.norecords", 0, EmptyBody)

\* errors.Is(err, comtrade.ErrNoRecords)
IsNoRecords(err) == err.type = "comtrade.norecords"

\* errors.Is(err, wits.ErrNoRecords)
IsWitsNoRecords(err) == err.type = "wits.norecords"

Obs(provider, reporter, partner, ptype, year, sub, row) ==
    [provider |-> provider, reporter |-> reporter, partner |-> partner,
     ptype |-> ptype, year |-> year, sub |-> sub, row |-> row]

SerOk(obs)   == [kind |-> "ok", obs |-> obs, err |-> NoErr]
SerFail(err) == [kind |-> "err", obs |-> <<>>, err |-> err]
SerNone      == [kind |-> "none", obs |-> <<>>, err |-> NoErr]

parseYear(value) ==
    LET v == TrimSpace(value) IN
    IF Len(v) # 4 \/ ~isDigits(v)
    THEN [ok |-> FALSE, year |-> 0]
    ELSE [ok |-> TRUE, year |-> AtoiDigits(v)]

yearsBetween(start, end) ==
    IF end - start + 1 <= 0 THEN <<>>
    ELSE [i \in 1..(end - start + 1) |-> start + i - 1]

\* a missing upper bound means the current year, a missing lower bound the
\* start of the lookback
buildYearRangeOpenEnded(from, to, lookback, current) ==
    IF from = <<>> /\ to = <<>>
    THEN LET start == IF current - lookback < 0 THEN 0 ELSE current - lookback
         IN  [err |-> NoErr, years |-> yearsBetween(start, current)]
    ELSE LET s == IF from = <<>> THEN [ok |-> TRUE, year |-> current - lookback]
                  ELSE parseYear(from)
             e == IF to = <<>> THEN [ok |-> TRUE, year |-> current]
                  ELSE parseYear(to)
         IN  IF ~s.ok THEN [err |-> Err("invalid from year", 0, EmptyBody), years |-> <<>>]
             ELSE IF ~e.ok THEN [err |-> Err("invalid to year", 0, EmptyBody), years |-> <<>>]
             ELSE IF s.year > e.year
             THEN [err |-> NoErr, years |-> yearsBetween(e.year, s.year)]
             ELSE [err |-> NoErr, years |-> yearsBetween(s.year, e.year)]

buildYearRange(from, to, lookback, current) ==
    IF from = <<>> /\ to = <<>>
    THEN LET start == IF current - lookback < 0 THEN 0 ELSE current - lookback
         IN  [err |-> NoErr, years |-> yearsBetween(start, current)]
    ELSE LET f == IF from = <<>> THEN to ELSE from
             t == IF to = <<>> THEN f ELSE to
             s == parseYear(f)
             e == parseYear(t)
         IN  IF ~s.ok THEN [err |-> Err("invalid from year", 0, EmptyBody), years |-> <<>>]
             ELSE IF ~e.ok THEN [err |-> Err("invalid to year", 0, EmptyBody), years |-> <<>>]
             ELSE IF s.year > e.year
             THEN [err |-> NoErr, years |-> yearsBetween(e.year, s.year)]
             ELSE [err |-> NoErr, years |-> yearsBetween(s.year, e.year)]

\* an absent code is an error even when fallback is allowed
resolveCodeNoFallback(kind, iso3, codes, allowFallback) ==
    LET u == ToUpper(TrimSpace(iso3)) IN
    IF u = <<>>
    THEN [err |-> ErrNaming("iso3 is required", <<kind>>), code |-> <<>>]
    ELSE IF u \in DOMAIN codes /\ codes[u] # <<>>
    THEN [err |-> NoErr, code |-> codes[u]]
    ELSE [err |-> ErrNaming("missing code", <<kind>> \o u), code |-> <<>>]

resolveCode(kind, iso3, codes, allowFallback) ==
    LET u == ToUpper(TrimSpace(iso3)) IN
    IF u = <<>>
    THEN [err |-> ErrNaming("iso3 is required", <<kind>>), code |-> <<>>]
    ELSE IF u \in DOMAIN codes /\ codes[u] # <<>>
    THEN [err |-> NoErr, code |-> codes[u]]
    ELSE IF allowFallback
    THEN [err |-> NoErr, code |-> u]
    ELSE [err |-> ErrNaming("missing code", <<kind>> \o u), code |-> <<>>]

(***************************************************************************)
(* The answer to one comtrade data request, as fetchYear sees it: an error *)
(* of doRequest ("quota", "ctx", "http"), a body that does not decode      *)
(* ("undecodable") or has no row list ("badshape"), or a list of rows.  A  *)
(* row is "bad" (no value or no period), "Y" (a Year period) or "M" (a     *)
(* Month period).                                                          *)
(***************************************************************************)
YearAnswer(kind, rows) == [kind |-> kind, rows |-> rows]

RowLists ==
    {<<>>, <<"bad">>, <<"Y">>, <<"M">>, <<"bad", "Y">>, <<"Y", "M">>, <<"M", "Y">>}

YearAnswers ==
    {YearAnswer(k, <<>>) : k \in {"quota", "ctx", "http", "undecodable", "badshape"}}
    \cup {YearAnswer("rows", rows) : rows \in RowLists}

\* rowToObservation: the row's own period and value
rowToObservation(rowKind, row, reporter, partner, year) ==
    IF rowKind = "bad"
    THEN [ok |-> FALSE, obs |-> Obs("", reporter, partner, "", 0, 0, row)]
    ELSE IF rowKind = "M"
    THEN [ok |-> TRUE, obs |-> Obs("", reporter, partner, "M", year, 3, row)]
    ELSE [ok |-> TRUE, obs |-> Obs("", reporter, partner, "Y", year, 0, row)]

\* parseObservations: a row that does not convert is skipped
RECURSIVE parseRows(_, _, _, _, _)
parseRows(rows, i, reporter, partner, year) ==
    IF i > Len(rows) THEN <<>>
    ELSE LET r == rowToObservation(rows[i], i, reporter, partner, year) IN
         (IF r.ok THEN <<r.obs>> ELSE <<>>)
         \o parseRows(rows, i + 1, reporter, partner, year)

parseObservations(answer, reporter, partner, year) ==
    IF answer.kind = "undecodable"
    THEN [err |-> Err("decode", 0, EmptyBody), obs |-> <<>>]
    ELSE IF answer.kind = "badshape"
    THEN [err |-> Err("unexpected response shape", 0, EmptyBody), obs |-> <<>>]
    ELSE [err |-> NoErr, obs |-> parseRows(answer.rows, 1, reporter, partner, year)]

fetchYear(answer, reporter, partner, year) ==
    IF answer.kind = "quota"
    THEN [err |-> Err("quota", 403, JsonQuotaBody), obs |-> <<>>]
    ELSE IF answer.kind = "ctx"
    THEN [err |-> CtxErr, obs |-> <<>>]
    ELSE IF answer.kind = "http"
    THEN [err |-> Err("http", 500, EmptyBody), obs |-> <<>>]
    ELSE LET parsed == parseObservations(answer, reporter, partner, year) IN
         IF parsed.err # NoErr THEN parsed
         ELSE IF Len(parsed.obs) = 0 THEN [err |-> ErrNoRecords, obs |-> <<>>]
         ELSE [err |-> NoErr,
               obs |-> [i \in 1..Len(parsed.obs) |->
                           [parsed.obs[i] EXCEPT !.provider = "comtrade"]]]

(***************************************************************************)
(* pickLatest: the first maximum under (priority, period key).             *)
(***************************************************************************)
periodPriority(ptype) ==
    CASE ptype = "M" -> 3 [] ptype = "Q" -> 2 [] ptype = "Y" -> 1 [] OTHER -> 0

\* a period whose year text has other than four digits does not parse: key 0
periodKey(o) ==
    CASE o.year < 0 \/ o.year > 9999 -> 0
      [] o.ptype = "M" -> o.year * 100 + o.sub
      [] o.ptype = "Q" -> o.year * 10 + o.sub
      [] o.ptype = "Y" -> o.year
      [] OTHER -> 0

\* the later period wins whatever the granularity
compareObservationRecency(a, b) ==
    IF a.year # b.year
    THEN IF a.year > b.year THEN 1 ELSE -1
    ELSE IF periodPriority(a.ptype) > periodPriority(b.ptype) THEN 1
    ELSE IF periodPriority(a.ptype) < periodPriority(b.ptype) THEN -1
    ELSE 0

compareObservation(a, b) ==
    IF periodPriority(a.ptype) # periodPriority(b.ptype)
    THEN IF periodPriority(a.ptype) > periodPriority(b.ptype) THEN 1 ELSE -1
    ELSE IF periodKey(a) > periodKey(b) THEN 1
    ELSE IF periodKey(a) < periodKey(b) THEN -1
    ELSE 0

RECURSIVE pickIndex(_, _, _)
pickIndex(observations, i, selected) ==
    IF i > Len(observations) THEN selected
    ELSE IF selected = 0 \/ compareObservation(observations[i], observations[selected]) > 0
    THEN pickIndex(observations, i + 1, i)
    ELSE pickIndex(observations, i + 1, selected)

pickLatest(observations) ==
    LET sel == pickIndex(observations, 1, 0) IN
    IF sel = 0 THEN [ok |-> FALSE, obs |-> <<>>]
    ELSE [ok |-> TRUE, obs |-> <<observations[sel]>>]

\* comtrade FetchLatest once FetchSeries has returned
FetchLatestOf(series) ==
    IF series.kind = "err" THEN series
    ELSE IF Len(series.obs) = 0 THEN SerFail(ErrNoRecords)
    ELSE LET latest == pickLatest(series.obs) IN
         IF ~latest.ok THEN SerFail(Err("unable to select", 0, EmptyBody))
         ELSE SerOk(latest.obs)

\* comtrade FetchSeries after the loop over the years
SeriesEnd(observations) ==
    IF Len(observations) = 0 THEN SerFail(ErrNoRecords) ELSE SerOk(observations)

\* a failed reference load ends the call whatever the fallback policy
RefsFailureFatal(allowFallback) == "return"

\* comtrade FetchSeries' handling of a failed reference load
RefsFailureStep(allowFallback) == IF allowFallback THEN "proceed" ELSE "return"

\* every error of a year ends the call
YearStepFatal(err) == IF err = NoErr THEN "append" ELSE "return"

\* comtrade FetchSeries' handling of one year's fetchYear result
YearStep(err) ==
    IF err = NoErr THEN "append"
    ELSE IF IsNoRecords(err) THEN "continue"
    ELSE "return"

(***************************************************************************)
(* WITS.  A decoded SDMX payload keeps what parseSDMXObservations reads:   *)
(* the number of data sets, the series dimensions (id and values), the     *)
(* first observation dimension (each value already as normalizePeriod      *)
(* reads it) and, in the order the map iteration visits them, the series   *)
(* with their keys and observations.  A key component or observation key   *)
(* is [isInt, val]: whether strconv.Atoi accepts it, and its value.        *)
(***************************************************************************)
defaultYearAllValue == <<"a", "l", "l">>

Idx(n) == [isInt |-> TRUE, val |-> n]

NotIdx == [isInt |-> FALSE, val |-> 0]

Tok(ptype, year, sub) == [ok |-> TRUE, ptype |-> ptype, year |-> year, sub |-> sub]

TokBad == [ok |-> FALSE, ptype |-> "", year |-> 0, sub |-> 0]

Dim(id, values) == [id |-> id, values |-> values]

SdmxObs(key, value) == [key |-> key, value |-> value]

SdmxSeries(key, observations) == [key |-> key, observations |-> observations]

Payload(n, seriesDims, hasObsDim, timeValues, series) ==
    [dataSets |-> n, seriesDims |-> seriesDims, hasObsDim |-> hasObsDim,
     timeValues |-> timeValues, series |-> series]

StdDims == <<Dim("REPORTER", <<KOR>>), Dim("PARTNER", <<<<"u", "s", "a">>>>)>>

StdTimes == <<Tok("Y", BaseYear, 0), Tok("Y", BaseYear + 1, 0), TokBad>>

GoodSeries == SdmxSeries(<<Idx(0), Idx(0)>>, <<SdmxObs(Idx(1), TRUE), SdmxObs(Idx(0), TRUE)>>)

Payloads ==
    { Payload(0, StdDims, TRUE, StdTimes, <<GoodSeries>>),
      Payload(1, StdDims, FALSE, <<>>, <<GoodSeries>>),
      Payload(1, StdDims, TRUE, StdTimes, <<>>),
      Payload(1, StdDims, TRUE, StdTimes, <<GoodSeries>>),
      Payload(1, StdDims, TRUE, StdTimes,
              <<SdmxSeries(<<Idx(0), NotIdx>>, <<SdmxObs(Idx(0), TRUE)>>),
                SdmxSeries(<<Idx(0)>>, <<SdmxObs(Idx(0), TRUE)>>)>>),
      Payload(1, StdDims, TRUE, StdTimes,
              <<SdmxSeries(<<Idx(0), Idx(0)>>,
                           <<SdmxObs(NotIdx, TRUE), SdmxObs(Idx(3), TRUE),
                             SdmxObs(Idx(2), TRUE), SdmxObs(Idx(0), FALSE)>>)>>),
      Payload(1, StdDims, TRUE, StdTimes,
              <<SdmxSeries(<<Idx(0), NotIdx>>, <<SdmxObs(Idx(0), TRUE)>>),
                SdmxSeries(<<Idx(1), Idx(0)>>, <<SdmxObs(Idx(0), FALSE), SdmxObs(Idx(1), TRUE)>>)>>) }

WitsAnswer(kind, payload) == [kind |-> kind, payload |-> payload]

NoPayload == Payload(0, <<>>, FALSE, <<>>, <<>>)

\* what a wits trade request comes back with
WitsAnswers ==
    {WitsAnswer(k, NoPayload) :
        k \in {"ctx", "transport", "404NoRecordsFound", "404", "500", "undecodable"}}
    \cup {WitsAnswer("payload", pl) : pl \in Payloads}

\* what a wits data-availability request comes back with: an error of
\* doRequest or of the XML decoder, or the year texts of the entries
AvailAnswer(kind, years) == [kind |-> kind, years |-> years]

AvailAnswers ==
    { AvailAnswer("err", <<>>),
      AvailAnswer("years", <<>>),
      AvailAnswer("years", <<<<"n", "a">>, <<>>>>),
      AvailAnswer("years", <<Sprintf04d(BaseYear)>>),
      AvailAnswer("years", <<<<" ">> \o Sprintf04d(BaseYear + 1), <<"x">>, Sprintf04d(BaseYear)>>) }

\* wits doRequest: the error it returns, NoErr when it hands out the body
WitsDoRequest(answer) ==
    IF answer.kind = "ctx" THEN CtxErr
    ELSE IF answer.kind = "transport" THEN Err("transport", 0, EmptyBody)
    ELSE IF answer.kind = "404NoRecordsFound" THEN WitsErrNoRecords
    ELSE IF answer.kind = "404" THEN Err("wits: request failed", 404, EmptyBody)
    ELSE IF answer.kind = "500" THEN Err("wits: request failed", 500, EmptyBody)
    ELSE NoErr

parseSeriesKey(key, expected) ==
    IF expected > 0 /\ Len(key) # expected THEN [ok |-> FALSE, indices |-> <<>>]
    ELSE IF \E i \in 1..Len(key) : ~key[i].isInt THEN [ok |-> FALSE, indices |-> <<>>]
    ELSE [ok |-> TRUE, indices |-> [i \in 1..Len(key) |-> key[i].val]]

\* dimensionValues[id] of one series: the last dimension with that id whose
\* index is in range decides; ok is FALSE when there is none
dimensionValue(seriesDims, indices, id) ==
    LET hits == {i \in 1..Len(seriesDims) :
                    /\ seriesDims[i].id = id
                    /\ i <= Len(indices)
                    /\ indices[i] >= 0
                    /\ indices[i] < Len(seriesDims[i].values)}
    IN  IF hits = {} THEN [ok |-> FALSE, value |-> <<>>]
        ELSE LET i == CHOOSE h \in hits : \A g \in hits : g <= h
             IN  [ok |-> TRUE, value |-> seriesDims[i].values[indices[i] + 1]]

\* the observations one series contributes
RECURSIVE seriesObservations(_, _, _, _, _)
seriesObservations(observations, i, timeValues, reporter, partner) ==
    IF i > Len(observations) THEN <<>>
    ELSE LET o == observations[i]
             inRange == o.key.isInt /\ o.key.val >= 0 /\ o.key.val < Len(timeValues)
             good == inRange /\ timeValues[o.key.val + 1].ok /\ o.value
         IN  (IF good
              THEN LET t == timeValues[o.key.val + 1]
                   IN  <<Obs("", ToUpper(reporter), ToUpper(partner), t.ptype, t.year, t.sub, i)>>
              ELSE <<>>)
             \o seriesObservations(observations, i + 1, timeValues, reporter, partner)

RECURSIVE sdmxSeriesLoop(_, _, _, _)
sdmxSeriesLoop(payload, i, reporterISO3, partnerISO3) ==
    IF i > Len(payload.series) THEN <<>>
    ELSE LET series == payload.series[i]
             parsed == parseSeriesKey(series.key, Len(payload.seriesDims))
             rv == dimensionValue(payload.seriesDims, parsed.indices, "REPORTER")
             pv == dimensionValue(payload.seriesDims, parsed.indices, "PARTNER")
             reporter == IF rv.ok /\ rv.value # <<>> THEN rv.value ELSE reporterISO3
             partner == IF pv.ok /\ pv.value # <<>> THEN pv.value ELSE partnerISO3
         IN  (IF ~parsed.ok THEN <<>>
              ELSE seriesObservations(series.observations, 1, payload.timeValues,
                                      reporter, partner))
             \o sdmxSeriesLoop(payload, i + 1, reporterISO3, partnerISO3)

parseSDMXObservations(payload, reporterISO3, partnerISO3) ==
    IF payload.dataSets = 0
    THEN [err |-> Err("wits: missing dataset", 0, EmptyBody), obs |-> <<>>]
    ELSE IF ~payload.hasObsDim
    THEN [err |-> Err("wits: missing observation dimension", 0, EmptyBody), obs |-> <<>>]
    ELSE IF Len(payload.series) = 0
    THEN [err |-> Err("wits: empty series response", 0, EmptyBody), obs |-> <<>>]
    ELSE LET observations == sdmxSeriesLoop(payload, 1, reporterISO3, partnerISO3) IN
         IF Len(observations) = 0
         THEN [err |-> Err("wits: no observations parsed", 0, EmptyBody), obs |-> <<>>]
         ELSE [err |-> NoErr, obs |-> observations]

\* wits FetchSeries from doJSON on
WitsSeriesOf(answer, reporterISO3, partnerISO3) ==
    LET reqErr == WitsDoRequest(answer) IN
    IF reqErr # NoErr THEN SerFail(reqErr)
    ELSE IF answer.kind = "undecodable" THEN SerFail(Err("decode", 0, EmptyBody))
    ELSE LET parsed == parseSDMXObservations(answer.payload, reporterISO3, partnerISO3) IN
         IF parsed.err # NoErr THEN SerFail(parsed.err)
         ELSE SerOk([i \in 1..Len(parsed.obs) |->
                        [parsed.obs[i] EXCEPT !.provider = "wits"]])

\* wits FetchLatest once FetchSeries has returned
WitsFetchLatestOf(series) ==
    IF series.kind = "err" THEN series
    ELSE IF Len(series.obs) = 0
    THEN SerFail(Err("wits: no observations returned", 0, EmptyBody))
    ELSE LET latest == pickLatest(series.obs) IN
         IF ~latest.ok THEN SerFail(Err("wits: unable to select", 0, EmptyBody))
         ELSE SerOk(latest.obs)

\* strconv.Atoi: an optional sign, then one digit or more
Atoi(v) ==
    LET signed == v # <<>> /\ Head(v) \in {"+", "-"}
        digits == IF signed THEN Tail(v) ELSE v
    IN  IF digits # <<>> /\ isDigits(digits)
        THEN [ok |-> TRUE,
              n |-> IF signed /\ Head(v) = "-" THEN 0 - AtoiDigits(digits)
                    ELSE AtoiDigits(digits)]
        ELSE [ok |-> FALSE, n |-> 0]

\* latestYear's maxYear over the entries
RECURSIVE maxYearOf(_, _, _)
maxYearOf(years, i, maxYear) ==
    IF i > Len(years) THEN maxYear
    ELSE LET yearValue == TrimSpace(years[i])
             parsed == Atoi(yearValue)
         IN  IF yearValue # <<>> /\ parsed.ok /\ parsed.n > maxYear
             THEN maxYearOf(years, i + 1, parsed.n)
             ELSE maxYearOf(years, i + 1, maxYear)

\* latestYear's cacheKey
cacheKey(reporterISO3) == <<ToUpper(TrimSpace(reporterISO3)), "XPRT">>

\* resolveYear when from or to is given
resolveYearGiven(from, to) ==
    IF from # <<>> /\ to # <<>> /\ from # to THEN from \o <<";">> \o to
    ELSE IF from # <<>> THEN from
    ELSE to

SerFrame == UNCHANGED <<reqVars, refVars, colVars, rcVars, plVars, npVars, gvVars, lyVars, lrVars>>

SerInit ==
    /\ serProvider \in {"comtrade", "wits"}
    /\ serOp \in {"series", "latest"}
    /\ serFrom \in YearInputs
    /\ serTo \in YearInputs
    /\ serOp = "latest" => (serFrom = <<>> /\ serTo = <<>>)
    /\ cfgLookback \in 1..MaxLookback
    /\ cfgAllowFallback \in BOOLEAN
    /\ cfgAutoLatestYear \in BOOLEAN
    /\ serProvider = "comtrade" => cfgAutoLatestYear
    /\ serProvider = "wits" => (cfgLookback = 1 /\ cfgAllowFallback)
    /\ witsYearMap \in {<<>>, <<KOR, "XPRT">> :> Sprintf04d(BaseYear + 1)}
    /\ serProvider = "comtrade" => witsYearMap = <<>>
    /\ serPc = "start"
    /\ serRefsErr = NoErr
    /\ serCodes = <<>>
    /\ serYears = <<>>
    /\ serIdx = 0
    /\ serObs = <<>>
    /\ serYearValue = <<>>
    /\ serLog = <<>>
    /\ witsLog = <<>>
    /\ serSeries = SerNone
    /\ serLatest = SerNone

\* no call is running
SerIdle ==
    /\ serProvider = "comtrade"
    /\ serOp = "series"
    /\ serFrom = <<>>
    /\ serTo = <<>>
    /\ cfgLookback = 1
    /\ cfgAllowFallback = TRUE
    /\ cfgAutoLatestYear = TRUE
    /\ witsYearMap = <<>>
    /\ serPc = "start"
    /\ serRefsErr = NoErr
    /\ serCodes = <<>>
    /\ serYears = <<>>
    /\ serIdx = 0
    /\ serObs = <<>>
    /\ serYearValue = <<>>
    /\ serLog = <<>>
    /\ witsLog = <<>>
    /\ serSeries = SerNone
    /\ serLatest = SerNone

\* FetchSeries returns r (and FetchLatest, when it is the caller, with it)
SerReturn(r) ==
    /\ serPc' = "done"
    /\ serSeries' = r
    /\ serLatest' = IF serOp # "latest" THEN SerNone
                    ELSE IF serProvider = "wits" THEN WitsFetchLatestOf(r)
                    ELSE FetchLatestOf(r)

\* comtrade FetchSeries up to the loop over the years: ensureReferences (its
\* outcome and, when it succeeded, the code maps it left), the codes, the years
SeriesStart ==
    /\ serProvider = "comtrade"
    /\ serPc = "start"
    /\ \E refsOk \in BOOLEAN, rmap \in ReporterCodeMaps, pmap \in PartnerCodeMaps :
          LET reporterISO3 == ToUpper(TrimSpace(RawReporter))
              partnerISO3  == ToUpper(TrimSpace(RawPartner))
              rc == resolveCode("reporter", reporterISO3, rmap, cfgAllowFallback)
              pc == resolveCode("partner", partnerISO3, pmap, cfgAllowFallback)
              range == buildYearRange(serFrom, serTo, cfgLookback, CurrentYear)
              refsErr == IF refsOk THEN NoErr ELSE Err("references", 0, EmptyBody)
              early ==
                  IF refsOk /\ rc.err # NoErr THEN rc.err
                  ELSE IF refsOk /\ pc.err # NoErr THEN pc.err
                  ELSE IF ~refsOk /\ RefsFailureStep(cfgAllowFallback) = "return"
                  THEN refsErr
                  ELSE range.err
          IN  /\ serRefsErr' = refsErr
              /\ IF early # NoErr
                 THEN /\ SerReturn(SerFail(early))
                      /\ UNCHANGED <<serCodes, serYears, serIdx>>
                 ELSE IF Len(range.years) = 0
                 THEN /\ SerReturn(SeriesEnd(<<>>))
                      /\ UNCHANGED <<serCodes, serYears, serIdx>>
                 ELSE /\ serCodes' = IF refsOk THEN <<rc.code, pc.code>>
                                     ELSE <<reporterISO3, partnerISO3>>
                      /\ serYears' = range.years
                      /\ serIdx' = 1
                      /\ serPc' = "year"
                      /\ UNCHANGED <<serSeries, serLatest>>
    /\ UNCHANGED <<serProvider, serOp, serFrom, serTo, cfgLookback,
                   cfgAllowFallback, cfgAutoLatestYear, witsYearMap, serObs,
                   serYearValue, serLog, witsLog>>
    /\ SerFrame

\* one turn of comtrade FetchSeries' loop: fetchYear and what follows from it
SeriesYear ==
    /\ serProvider = "comtrade"
    /\ serPc = "year"
    /\ \E answer \in YearAnswers :
          LET year == serYears[serIdx]
              r == fetchYear(answer, ToUpper(TrimSpace(RawReporter)),
                             ToUpper(TrimSpace(RawPartner)), year)
              step == YearStep(r.err)
              observations == IF step = "append" THEN serObs \o r.obs ELSE serObs
          IN  /\ serLog' = Append(serLog, [year |-> year, codes |-> serCodes,
                                           answer |-> answer])
              /\ serObs' = observations
              /\ IF step = "return"
                 THEN /\ SerReturn(SerFail(r.err))
                      /\ UNCHANGED serIdx
                 ELSE IF serIdx = Len(serYears)
                 THEN /\ SerReturn(SeriesEnd(observations))
                      /\ UNCHANGED serIdx
                 ELSE /\ serIdx' = serIdx + 1
                      /\ UNCHANGED <<serPc, serSeries, serLatest>>
    /\ UNCHANGED serRefsErr
    /\ UNCHANGED <<serProvider, serOp, serFrom, serTo, cfgLookback,
                   cfgAllowFallback, cfgAutoLatestYear, witsYearMap, serCodes,
                   serYears, serYearValue, witsLog>>
    /\ SerFrame

\* wits FetchSeries up to the first request: resolveYear, with latestYear's
\* look into the cache
WitsStart ==
    /\ serProvider = "wits"
    /\ serPc = "start"
    /\ LET from == TrimSpace(serFrom)
           to == TrimSpace(serTo)
           key == cacheKey(RawReporter)
       IN  IF from = <<>> /\ to = <<>>
           THEN IF cfgAutoLatestYear
                THEN IF key \in DOMAIN witsYearMap
                     THEN /\ serYearValue' = IF witsYearMap[key] # <<>> THEN witsYearMap[key]
                                             ELSE defaultYearAllValue
                          /\ serPc' = "trade"
                     ELSE /\ serPc' = "avail"
                          /\ UNCHANGED serYearValue
                ELSE /\ serYearValue' = defaultYearAllValue
                     /\ serPc' = "trade"
           ELSE /\ serYearValue' = resolveYearGiven(from, to)
                /\ serPc' = "trade"
    /\ UNCHANGED serRefsErr
    /\ UNCHANGED <<serProvider, serOp, serFrom, serTo, cfgLookback,
                   cfgAllowFallback, cfgAutoLatestYear, witsYearMap, serCodes,
                   serYears, serIdx, serObs, serLog, witsLog, serSeries, serLatest>>
    /\ SerFrame

\* latestYear's data-availability request and resolveYear's use of it
WitsLatestYear ==
    /\ serProvider = "wits"
    /\ serPc = "avail"
    /\ \E answer \in AvailAnswers :
          LET maxYear == IF answer.kind = "err" THEN 0 ELSE maxYearOf(answer.years, 1, 0)
              key == cacheKey(RawReporter)
          IN  /\ witsLog' = Append(witsLog, [path |-> "dataavailability",
                                             year |-> <<>>, kind |-> answer.kind,
                                             payload |-> NoPayload])
              /\ IF maxYear = 0
                 THEN /\ serYearValue' = defaultYearAllValue
                      /\ UNCHANGED witsYearMap
                 ELSE /\ serYearValue' = Itoa(maxYear)
                      /\ witsYearMap' = (key :> Itoa(maxYear)) @@ witsYearMap
    /\ serPc' = "trade"
    /\ UNCHANGED serRefsErr
    /\ UNCHANGED <<serProvider, serOp, serFrom, serTo, cfgLookback,
                   cfgAllowFallback, cfgAutoLatestYear, serCodes, serYears,
                   serIdx, serObs, serLog, serSeries, serLatest>>
    /\ SerFrame

\* wits FetchSeries' trade request and everything after it
WitsTrade ==
    /\ serProvider = "wits"
    /\ serPc = "trade"
    /\ \E answer \in WitsAnswers :
          /\ witsLog' = Append(witsLog, [path |-> "trade", year |-> serYearValue,
                                         kind |-> answer.kind,
                                         payload |-> answer.payload])
          /\ SerReturn(WitsSeriesOf(answer, RawReporter, RawPartner))
    /\ UNCHANGED serRefsErr
    /\ UNCHANGED <<serProvider, serOp, serFrom, serTo, cfgLookback,
                   cfgAllowFallback, cfgAutoLatestYear, witsYearMap, serCodes,
                   serYears, serIdx, serObs, serYearValue, serLog>>
    /\ SerFrame

SerNext == SeriesStart \/ SeriesYear \/ WitsStart \/ WitsLatestYear \/ WitsTrade

(***************************************************************************)
(* Properties of FetchSeries and FetchLatest.                              *)
(***************************************************************************)
\* what one logged comtrade data request yielded, read off the answer alone
YieldOf(entry) ==
    IF entry.answer.kind # "rows" THEN <<>>
    ELSE LET kept == SelectSeq([i \in 1..Len(entry.answer.rows) |->
                                   [kind |-> entry.answer.rows[i], row |-> i]],
                               LAMBDA r : r.kind # "bad")
         IN  [i \in 1..Len(kept) |->
                 Obs("comtrade", KOR, USA, kept[i].kind, entry.year,
                     IF kept[i].kind = "M" THEN 3 ELSE 0, kept[i].row)]

\* the year's answer was a no-record one: rows, none of them usable
NoRecordYear(entry) == entry.answer.kind = "rows" /\ YieldOf(entry) = <<>>

\* the year's request or decoding failed
FailedYear(entry) == entry.answer.kind # "rows"

RECURSIVE ConcatYields(_, _)
ConcatYields(log, i) ==
    IF i > Len(log) THEN <<>> ELSE YieldOf(log[i]) \o ConcatYields(log, i + 1)

ComtradeSeriesDone ==
    serProvider = "comtrade" /\ serPc = "done" /\ Len(serLog) > 0

\* C5: in a comtrade FetchSeries call the years are requested in ascending
\* order; after a year without a record (as after a year with data) the next
\* year is still requested; a successful call returns the concatenation, in
\* that order, of the observations of the years that had data; and the call
\* returns ErrNoRecords exactly when every year of the range was requested
\* and was without a record
C5_SeriesSkipsEmptyYears ==
    ComtradeSeriesDone
    => /\ Len(serLog) <= Len(serYears)
       /\ \A i \in 1..Len(serLog) : serLog[i].year = serYears[i]
       /\ \A i \in 1..(Len(serYears) - 1) : serYears[i] < serYears[i + 1]
       /\ \A i \in 1..Len(serLog) :
             (~FailedYear(serLog[i]) /\ i < Len(serYears)) => Len(serLog) > i
       /\ serSeries = SerFail(ErrNoRecords)
             <=> /\ Len(serLog) = Len(serYears)
                 /\ \A i \in 1..Len(serLog) : NoRecordYear(serLog[i])
       /\ serSeries.kind = "ok"
             <=> /\ Len(serLog) = Len(serYears)
                 /\ \A i \in 1..Len(serLog) : ~FailedYear(serLog[i])
                 /\ \E i \in 1..Len(serLog) : ~NoRecordYear(serLog[i])
       /\ serSeries.kind = "ok" => serSeries = SerOk(ConcatYields(serLog, 1))

\* a call over two years whose first had no record and whose second had some
C5_Witness ==
    /\ ComtradeSeriesDone
    /\ serOp = "series"
    /\ Len(serLog) = 2
    /\ NoRecordYear(serLog[1])
    /\ serLog[2].answer.rows = <<"Y", "M">>
    /\ serSeries.kind = "ok"
    /\ Len(serSeries.obs) = 2

\* C6: in a comtrade FetchSeries call over several years, a year whose
\* request fails with an HTTP 500, or whose body does not decode, is passed
\* over: the remaining years are still requested and the call does not end
\* with that year's error
C6_FailedYearSkipped ==
    (serProvider = "comtrade" /\ serPc = "done" /\ Len(serYears) >= 2)
    => \A i \in 1..Len(serLog) :
          serLog[i].answer.kind \in {"http", "undecodable"}
          => /\ Len(serLog) = Len(serYears)
             /\ serSeries.err.type \notin {"http", "decode"}

\* comtrade: every year of the lookback came back with an empty row set
ComtradeNoData ==
    /\ serProvider = "comtrade"
    /\ Len(serLog) > 0
    /\ Len(serLog) = Len(serYears)
    /\ \A i \in 1..Len(serLog) :
          serLog[i].answer.kind = "rows" /\ serLog[i].answer.rows = <<>>

\* a decoded payload that carries no series
NoSeries(payload) ==
    payload.dataSets > 0 /\ payload.hasObsDim /\ Len(payload.series) = 0

\* a decoded payload whose series carry no observation with a key inside the
\* time dimension, a period and a value
NoParsableObservation(payload) ==
    /\ payload.dataSets > 0
    /\ payload.hasObsDim
    /\ Len(payload.series) > 0
    /\ \A i \in 1..Len(payload.series) :
          \/ \E c \in 1..Len(payload.series[i].key) : ~payload.series[i].key[c].isInt
          \/ \A j \in 1..Len(payload.series[i].observations) :
                LET o == payload.series[i].observations[j] IN
                \/ ~o.key.isInt
                \/ o.key.val >= Len(payload.timeValues)
                \/ ~payload.timeValues[o.key.val + 1].ok
                \/ ~o.value

\* wits: the trade request came back 404 NoRecordsFound
WitsNotFound ==
    /\ serProvider = "wits"
    /\ Len(witsLog) > 0
    /\ witsLog[Len(witsLog)].path = "trade"
    /\ witsLog[Len(witsLog)].kind = "404NoRecordsFound"

\* wits: the trade request succeeded with no series or no parsable observation
WitsEmptySuccess ==
    /\ serProvider = "wits"
    /\ Len(witsLog) > 0
    /\ witsLog[Len(witsLog)].path = "trade"
    /\ witsLog[Len(witsLog)].kind = "payload"
    /\ \/ NoSeries(witsLog[Len(witsLog)].payload)
       \/ NoParsableObservation(witsLog[Len(witsLog)].payload)

\* C7: FetchLatest of either provider fails with that provider's ErrNoRecords
\* when the provider reported no data: comtrade with an empty row set for
\* every year of the lookback, wits with 404 NoRecordsFound or with a
\* successful response without series or without parsable observation
C7_LatestNoRecords ==
    (serOp = "latest" /\ serPc = "done")
    => /\ ComtradeNoData => serLatest = SerFail(ErrNoRecords)
       /\ WitsNotFound => serLatest = SerFail(WitsErrNoRecords)
       /\ WitsEmptySuccess => serLatest = SerFail(WitsErrNoRecords)

(***************************************************************************)
(* normalizePeriod and the period parsers, on the characters of their input.*)
(* Both providers carry the same normalizePeriod, parseYearMonth,          *)
(* parseYearQuarter and parseYear; the collector has its own copies.       *)
(***************************************************************************)
PeriodOf(ptype, period) == [ok |-> TRUE, ptype |-> ptype, period |-> period]

NoPeriod == [ok |-> FALSE, ptype |-> "", period |-> <<>>]

\* month 0 is taken for a month
parseYearMonthFromZero(v) ==
    LET value == TrimSpace(v)
        parts == Split(value, <<"-">>)
        m6 == Atoi(SubSeq(value, 5, 6))
        y == Atoi(parts[1])
        m == Atoi(parts[2])
    IN  IF Len(value) = 6 /\ isDigits(value) /\ m6.n >= 0 /\ m6.n <= 12
        THEN [ok |-> TRUE, year |-> Atoi(SubSeq(value, 1, 4)).n, month |-> m6.n]
        ELSE IF Len(parts) = 2 /\ Len(parts[1]) = 4
                /\ y.ok /\ m.ok /\ m.n >= 0 /\ m.n <= 12
        THEN [ok |-> TRUE, year |-> y.n, month |-> m.n]
        ELSE [ok |-> FALSE, year |-> 0, month |-> 0]

parseYearMonth(v) ==
    LET value == TrimSpace(v)
        parts == Split(value, <<"-">>)
        m6 == Atoi(SubSeq(value, 5, 6))
        y == Atoi(parts[1])
        m == Atoi(parts[2])
    IN  IF Len(value) = 6 /\ isDigits(value) /\ m6.n >= 1 /\ m6.n <= 12
        THEN [ok |-> TRUE, year |-> Atoi(SubSeq(value, 1, 4)).n, month |-> m6.n]
        ELSE IF Len(parts) = 2 /\ Len(parts[1]) = 4
                /\ y.ok /\ m.ok /\ m.n >= 1 /\ m.n <= 12
        THEN [ok |-> TRUE, year |-> y.n, month |-> m.n]
        ELSE [ok |-> FALSE, year |-> 0, month |-> 0]

\* one of parseYearQuarter's two attempts: split at sep, year before, quarter after
quarterSplit(value, sep) ==
    LET parts == Split(value, sep)
        y == Atoi(parts[1])
        q == Atoi(parts[2])
    IN  IF Contains(value, sep) /\ Len(parts) = 2
           /\ y.ok /\ q.ok /\ q.n >= 1 /\ q.n <= 4
        THEN [ok |-> TRUE, year |-> y.n, quarter |-> q.n]
        ELSE [ok |-> FALSE, year |-> 0, quarter |-> 0]

parseYearQuarter(v) ==
    LET value == ToUpper(TrimSpace(v)) IN
    IF quarterSplit(value, <<"-", "Q">>).ok THEN quarterSplit(value, <<"-", "Q">>)
    ELSE quarterSplit(value, <<"Q">>)

normalizePeriod(raw) ==
    LET trimmed == TrimSpace(raw)
        ym == parseYearMonth(trimmed)
        yq == parseYearQuarter(trimmed)
        y == parseYear(trimmed)
    IN  IF trimmed = <<>> THEN NoPeriod
        ELSE IF ym.ok
        THEN PeriodOf("M", Sprintf04d(ym.year) \o <<"-">> \o Sprintf02d(ym.month))
        ELSE IF yq.ok
        THEN PeriodOf("Q", Sprintf04d(yq.year) \o <<"-", "Q">> \o Itoa(yq.quarter))
        ELSE IF y.ok THEN PeriodOf("Y", Sprintf04d(y.year))
        ELSE NoPeriod

(***************************************************************************)
(* The collector: runCollector's loop over reporter x partner x flow and   *)
(* collectObservations.  The provider is whatever answers FetchLatest and  *)
(* FetchSeries; the store answers ListObservationKeys and, at the end,     *)
(* UpsertObservations.                                                     *)
(***************************************************************************)
ReporterLists == {<<KOR>>, <<KOR, USA>>, <<USA, KOR>>}

PartnerLists == {<<<<"u", "s", "a">>>>}

FlowLists == {<<"export">>, <<"export", "import">>}

ErrQuotaExceeded == Err("quota", 403, JsonQuotaBody)

\* the loop order: reporters outermost, flows innermost
Triples(rs, ps, fs) ==
    [i \in 1..(Len(rs) * Len(ps) * Len(fs)) |->
        [reporter |-> rs[((i - 1) \div (Len(ps) * Len(fs))) + 1],
         partner  |-> ps[(((i - 1) \div Len(fs)) % Len(ps)) + 1],
         flow     |-> fs[((i - 1) % Len(fs)) + 1]]]

\* strings.EqualFold on ASCII text
EqualFold(a, b) == ToUpper(a) = ToUpper(b)

\* yearFromPeriod on an observation: a year text of other than four digits
\* does not parse
yearFromPeriod(o) ==
    IF o.ptype \in {"M", "Q", "Y"} /\ o.year >= 0 /\ o.year <= 9999
    THEN [ok |-> TRUE, year |-> o.year]
    ELSE [ok |-> FALSE, year |-> 0]

\* an observation key of the store
StoreKey(ptype, period) == [ptype |-> ptype, period |-> period]

\* yearFromPeriod on a stored key's period type and period text
yearFromKey(key) ==
    IF key.ptype = "M"
    THEN [ok |-> parseYearMonth(key.period).ok, year |-> parseYearMonth(key.period).year]
    ELSE IF key.ptype = "Q"
    THEN [ok |-> parseYearQuarter(key.period).ok, year |-> parseYearQuarter(key.period).year]
    ELSE IF key.ptype = "Y" THEN parseYear(key.period)
    ELSE [ok |-> FALSE, year |-> 0]

\* existingObservationYears: the years of the keys ListObservationKeys returned
existingObservationYears(keys) ==
    {yearFromKey(key).year : key \in {k \in keys : yearFromKey(k).ok}}

\* what ListObservationKeys may return for a slice
StoreKeySets ==
    { {},
      {StoreKey("Y", Sprintf04d(BaseYear))},
      {StoreKey("Y", Sprintf04d(BaseYear + 1))},
      {StoreKey("M", Sprintf04d(BaseYear + 1) \o <<"-", "0", "5">>)},
      {StoreKey("Q", Sprintf04d(BaseYear) \o <<"-", "Q", "4">>), StoreKey("Y", <<"2", "0">>)} }

\* the provider's own no-records sentinel
NoRecordsOf(provider) == IF provider = "wits" THEN WitsErrNoRecords ELSE ErrNoRecords

\* what FetchLatest may answer for a slice
LatestAnswers(provider, t) ==
    { SerOk(<<Obs(provider, ToUpper(t.reporter), ToUpper(t.partner), "Y", BaseYear + 1, 0, 1)>>),
      SerOk(<<Obs(provider, ToUpper(t.reporter), ToUpper(t.partner), "Y", BaseYear * 10, 0, 1)>>),
      SerFail(NoRecordsOf(provider)),
      SerFail(Err("http", 500, EmptyBody)) }
    \cup (IF provider = "comtrade" THEN {SerFail(ErrQuotaExceeded)} ELSE {})

\* what FetchSeries may answer for a slice and one year
SeriesAnswers(provider, t, year) ==
    { SerOk(<<Obs(provider, ToUpper(t.reporter), ToUpper(t.partner), "Y", year, 0, 1)>>),
      SerFail(NoRecordsOf(provider)),
      SerFail(Err("http", 500, EmptyBody)) }
    \cup (IF provider = "comtrade" THEN {SerFail(ErrQuotaExceeded)} ELSE {})

\* the target years taken one after the other, stored or not
nextTargetAll(from, year, existingYears) == IF from > year THEN year + 1 ELSE from

\* the first year from `from` up to `year` that the store does not hold;
\* year + 1 when there is none
RECURSIVE nextTarget(_, _, _)
nextTarget(from, year, existingYears) ==
    IF from > year THEN year + 1
    ELSE IF from \in existingYears THEN nextTarget(from + 1, year, existingYears)
    ELSE from

\* collectObservations after its loop over the target years
collectEnd(series, latest, year, existingYears) ==
    IF Len(series) = 0
    THEN IF year \in existingYears THEN SerOk(<<>>) ELSE SerOk(<<latest>>)
    ELSE SerOk(series)

\* a quota error is counted as a failed slice like any other error
RunStepQuotaCounted(ret) ==
    IF ret.kind = "err"
    THEN IF IsWitsNoRecords(ret.err) \/ IsNoRecords(ret.err) THEN "skip"
         ELSE "fail"
    ELSE IF Len(ret.obs) = 0 THEN "skip"
    ELSE "success"

\* a quota error skips the slice and the run goes on
RunStepQuotaSkipped(ret) ==
    IF ret.kind = "err"
    THEN IF IsWitsNoRecords(ret.err) \/ IsNoRecords(ret.err) \/ IsQuotaErr(ret.err)
         THEN "skip"
         ELSE "fail"
    ELSE IF Len(ret.obs) = 0 THEN "skip"
    ELSE "success"

\* runCollector's handling of what collectObservations returned
RunStep(ret) ==
    IF ret.kind = "err"
    THEN IF IsWitsNoRecords(ret.err) \/ IsNoRecords(ret.err) THEN "skip"
         ELSE IF IsQuotaErr(ret.err) THEN "return"
         ELSE "fail"
    ELSE IF Len(ret.obs) = 0 THEN "skip"
    ELSE "success"

ColFrame == UNCHANGED <<reqVars, refVars, serVars, rcVars, plVars, npVars, gvVars, lyVars, lrVars>>

ColInit ==
    /\ colProvider \in {"comtrade", "wits"}
    /\ colReporters \in ReporterLists
    /\ colPartners \in PartnerLists
    /\ colFlows \in FlowLists
    /\ historyYears \in 0..MaxHistoryYears
    /\ storedKeys \in StoreKeySets
    /\ storedYears = existingObservationYears(storedKeys)
    /\ colPc = "loop"
    /\ colIdx = 1
    /\ colLatest = SerNone
    /\ colTarget = 0
    /\ colSeries = <<>>
    /\ requests = 0
    /\ success = 0
    /\ failed = 0
    /\ skipped = 0
    /\ colObservations = <<>>
    /\ colCalls = <<>>
    /\ upserts = 0
    /\ colResult = SerNone

\* no run is going on
ColIdle ==
    /\ colProvider = "comtrade"
    /\ colReporters = <<KOR>>
    /\ colPartners = <<USA>>
    /\ colFlows = <<"export">>
    /\ historyYears = 0
    /\ storedKeys = {}
    /\ storedYears = {}
    /\ colPc = "loop"
    /\ colIdx = 1
    /\ colLatest = SerNone
    /\ colTarget = 0
    /\ colSeries = <<>>
    /\ requests = 0
    /\ success = 0
    /\ failed = 0
    /\ skipped = 0
    /\ colObservations = <<>>
    /\ colCalls = <<>>
    /\ upserts = 0
    /\ colResult = SerNone

ColTriples == Triples(colReporters, colPartners, colFlows)

\* collectObservations returned ret: the rest of the loop body
Collected(ret) ==
    LET step == RunStep(ret) IN
    /\ skipped' = IF step = "skip" THEN skipped + 1 ELSE skipped
    /\ failed' = IF step = "fail" THEN failed + 1 ELSE failed
    /\ success' = IF step = "success" THEN success + 1 ELSE success
    /\ colObservations' = IF step = "success" THEN colObservations \o ret.obs ELSE colObservations
    /\ colLatest' = SerNone
    /\ colTarget' = 0
    /\ colSeries' = <<>>
    /\ IF step = "return"
       THEN /\ colPc' = "done"
            /\ colResult' = SerFail(ret.err)
            /\ UNCHANGED colIdx
       ELSE /\ colPc' = "loop"
            /\ colIdx' = colIdx + 1
            /\ UNCHANGED colResult

\* the head of the loop body, up to collectObservations' FetchLatest call
ColSlice ==
    /\ colPc = "loop"
    /\ colIdx <= Len(ColTriples)
    /\ LET t == ColTriples[colIdx] IN
       IF EqualFold(t.reporter, t.partner)
       THEN /\ skipped' = skipped + 1
            /\ colIdx' = colIdx + 1
            /\ UNCHANGED <<colPc, colLatest, colTarget, colSeries, requests,
                           success, failed, colObservations, colResult>>
       ELSE /\ requests' = requests + 1
            /\ \E listErr \in BOOLEAN :
                  IF listErr
                  THEN Collected(SerFail(Err("store", 0, EmptyBody)))
                  ELSE /\ colPc' = "latest"
                       /\ UNCHANGED <<colIdx, colLatest, colTarget, colSeries,
                                      success, failed, skipped, colObservations,
                                      colResult>>
    /\ UNCHANGED <<colProvider, colReporters, colPartners, colFlows,
                   historyYears, storedKeys, storedYears, colCalls, upserts>>
    /\ ColFrame

\* collectObservations' FetchLatest call and what follows up to the next call
ColLatest ==
    /\ colPc = "latest"
    /\ \E answer \in LatestAnswers(colProvider, ColTriples[colIdx]) :
          /\ colCalls' = Append(colCalls, [op |-> "FetchLatest", slice |-> colIdx,
                                           from |-> <<>>, err |-> answer.err.type,
                                           obs |-> answer.obs])
          /\ IF answer.kind = "err"
             THEN Collected(answer)
             ELSE LET latest == answer.obs[1]
                      y == yearFromPeriod(latest)
                      fromYear == IF y.year - historyYears < 0 THEN 0
                                  ELSE y.year - historyYears
                      target == nextTarget(fromYear, y.year, storedYears)
                  IN  IF historyYears <= 0
                      THEN IF y.ok /\ y.year \in storedYears
                           THEN Collected(SerOk(<<>>))
                           ELSE Collected(SerOk(<<latest>>))
                      ELSE IF ~y.ok
                      THEN Collected(SerOk(<<latest>>))
                      ELSE IF target > y.year
                      THEN Collected(collectEnd(<<>>, latest, y.year, storedYears))
                      ELSE /\ colPc' = "series"
                           /\ colLatest' = answer
                           /\ colTarget' = target
                           /\ colSeries' = <<>>
                           /\ UNCHANGED <<colIdx, success, failed, skipped,
                                          colObservations, colResult>>
    /\ UNCHANGED <<colProvider, colReporters, colPartners, colFlows,
                   historyYears, storedKeys, storedYears, requests, upserts>>
    /\ ColFrame

\* one FetchSeries call of collectObservations and what follows up to the next
ColSeries ==
    /\ colPc = "series"
    /\ \E answer \in SeriesAnswers(colProvider, ColTriples[colIdx], colTarget) :
          LET latest == colLatest.obs[1]
              year == yearFromPeriod(latest).year
              noRecords == answer.kind = "err"
                           /\ (IsWitsNoRecords(answer.err) \/ IsNoRecords(answer.err))
              series == IF answer.kind = "ok" THEN colSeries \o answer.obs ELSE colSeries
              target == nextTarget(colTarget + 1, year, storedYears)
          IN  /\ colCalls' = Append(colCalls, [op |-> "FetchSeries", slice |-> colIdx,
                                               from |-> Sprintf04d(colTarget),
                                               err |-> answer.err.type,
                                               obs |-> answer.obs])
              /\ IF answer.kind = "err" /\ ~noRecords
                 THEN Collected(answer)
                 ELSE IF target > year
                 THEN Collected(collectEnd(series, latest, year, storedYears))
                 ELSE /\ colTarget' = target
                      /\ colSeries' = series
                      /\ UNCHANGED <<colPc, colIdx, colLatest, success, failed,
                                     skipped, colObservations, colResult>>
    /\ UNCHANGED <<colProvider, colReporters, colPartners, colFlows,
                   historyYears, storedKeys, storedYears, requests, upserts>>
    /\ ColFrame

\* after the loop: UpsertObservations and the return
ColUpsert ==
    /\ colPc = "loop"
    /\ colIdx > Len(ColTriples)
    /\ upserts' = upserts + 1
    /\ colPc' = "done"
    /\ \E upsertErr \in BOOLEAN :
          colResult' = IF upsertErr THEN SerFail(Err("store", 0, EmptyBody))
                       ELSE SerOk(<<>>)
    /\ UNCHANGED <<colProvider, colReporters, colPartners, colFlows,
                   historyYears, storedKeys, storedYears, colIdx, colLatest, colTarget,
                   colSeries, requests, success, failed, skipped, colObservations,
                   colCalls>>
    /\ ColFrame

ColNext == ColSlice \/ ColLatest \/ ColSeries \/ ColUpsert

(***************************************************************************)
(* Properties of the collector.                                            *)
(***************************************************************************)
\* C8: once a provider call of collectObservations has failed with the quota
\* error, that call is the last FetchLatest or FetchSeries call of the run,
\* and the run is over with that error, the slice counted neither as failed
\* nor as anything else
C8_QuotaEndsRun ==
    \A i \in 1..Len(colCalls) :
        colCalls[i].err = "quota"
        => /\ i = Len(colCalls)
           /\ colPc = "done"
           /\ colResult = SerFail(ErrQuotaExceeded)
           /\ colCalls[i].slice = colIdx
           /\ success + failed + skipped = colIdx - 1

\* the quota error came after an earlier slice was collected and while
\* slices remained
C8_Witness ==
    /\ Len(colCalls) >= 3
    /\ colCalls[Len(colCalls)].err = "quota"
    /\ colCalls[Len(colCalls)].op = "FetchSeries"
    /\ success >= 1
    /\ colIdx < Len(ColTriples)
    /\ colPc = "done"
    /\ colResult = SerFail(ErrQuotaExceeded)

(***************************************************************************)
(* Further properties of doRequest.                                        *)
(***************************************************************************)
\* the key is empty or whitespace
BlankKey(key) == \A i \in 1..Len(key) : key[i] = " "

\* C11: with both keys empty or whitespace, doRequest takes no token from the
\* limiter, issues no GET and ends with the configuration error; and a GET
\* carries the secondary key only when that key is non-blank and differs from
\* the primary, the primary key only when it is non-blank
C11_NoKeysConfigError ==
    /\ (BlankKey(cfgPrimary) /\ BlankKey(cfgSecondary))
       => /\ reqPc \in {"start", "done"}
          /\ tokens = defaultRateLimitBurst
          /\ getLog = <<>>
          /\ reqPc = "done" => reqResult = Fail(Err("config", 0, EmptyBody))
    /\ \A i \in 1..Len(getLog) :
          \/ getLog[i].key = cfgPrimary /\ ~BlankKey(cfgPrimary)
          \/ /\ getLog[i].key = cfgSecondary
             /\ ~BlankKey(cfgSecondary)
             /\ cfgSecondary # cfgPrimary
    /\ (reqPc = "done" /\ reqResult.err.type = "config")
       => (BlankKey(cfgPrimary) /\ BlankKey(cfgSecondary))

\* a whitespace primary key and no secondary key: the configuration error
C11_Witness ==
    /\ cfgPrimary = <<" ">>
    /\ cfgSecondary = <<>>
    /\ reqPc = "done"
    /\ reqResult = Fail(Err("config", 0, EmptyBody))
    /\ getLog = <<>>

(***************************************************************************)
(* Further properties of comtrade FetchSeries.                             *)
(***************************************************************************)
\* C12: when the reference load of a comtrade FetchSeries call failed: with
\* AllowISO3Fallback the call goes on (it ends early only on an invalid year
\* bound) and every data request carries the trimmed, upper-cased ISO3 values
\* as reporter and partner code; without it the call returns the reference
\* load's error and no data request is issued
C12_ReferenceFailureFallback ==
    (serProvider = "comtrade" /\ serRefsErr # NoErr)
    => IF cfgAllowFallback
       THEN /\ \A i \in 1..Len(serLog) : serLog[i].codes = <<KOR, USA>>
            /\ serPc = "year" => serCodes = <<KOR, USA>>
            /\ (serPc = "done" /\ serLog = <<>>)
                  => serSeries.err.type \in {"invalid from year", "invalid to year"}
            /\ serSeries.err # serRefsErr
       ELSE /\ serLog = <<>>
            /\ serPc = "done"
            /\ serSeries = SerFail(serRefsErr)

\* the reference load failed, fallback is on, and two years were requested
C12_Witness ==
    /\ serProvider = "comtrade"
    /\ serRefsErr # NoErr
    /\ cfgAllowFallback
    /\ serPc = "done"
    /\ Len(serLog) = 2
    /\ serLog[2].codes = <<KOR, USA>>
    /\ serSeries.kind = "ok"

(***************************************************************************)
(* resolveCode, called on its own.                                         *)
(***************************************************************************)
Code410 == <<"4", "1", "0">>

Code842 == <<"8", "4", "2">>

\* the iso3 arguments tried
Iso3Inputs == {<<>>, <<" ">>, <<" ", "k", "o", "r">>, KOR, <<"u", "s", "a">>, <<"F", "R", "A">>}

\* the code maps tried
CodeMaps ==
    {<<>>, KOR :> Code410, KOR :> <<>>, (KOR :> Code410) @@ (USA :> Code842)}

NoCode == [err |-> NoErr, code |-> <<>>]

RcFrame == UNCHANGED <<reqVars, refVars, serVars, colVars, plVars, npVars, gvVars, lyVars, lrVars>>

RcInit ==
    /\ rcKind \in {"reporter", "partner"}
    /\ rcIso3 \in Iso3Inputs
    /\ rcCodes \in CodeMaps
    /\ rcCodesBefore = rcCodes
    /\ rcAllowFallback \in BOOLEAN
    /\ rcPc = "call"
    /\ rcResult = NoCode

\* no call
RcIdle ==
    /\ rcKind = "reporter"
    /\ rcIso3 = <<>>
    /\ rcCodes = <<>>
    /\ rcCodesBefore = <<>>
    /\ rcAllowFallback = TRUE
    /\ rcPc = "call"
    /\ rcResult = NoCode

\* the call: resolveCode reads the map and writes nothing
ResolveCall ==
    /\ rcPc = "call"
    /\ rcResult' = resolveCode(rcKind, rcIso3, rcCodes, rcAllowFallback)
    /\ rcPc' = "done"
    /\ UNCHANGED <<rcKind, rcIso3, rcCodes, rcCodesBefore, rcAllowFallback>>
    /\ RcFrame

RcNext == ResolveCall

\* the upper-cased ISO3 the map is asked for
RcLookup == ToUpper(TrimSpace(rcIso3))

RcMapped == RcLookup \in DOMAIN rcCodes /\ rcCodes[RcLookup] # <<>>

\* the three outcomes of the statement, for the ISO3 as resolveCode reads it
RcOutcome ==
    /\ RcMapped => rcResult = [err |-> NoErr, code |-> rcCodes[RcLookup]]
    /\ (~RcMapped /\ rcAllowFallback) => rcResult = [err |-> NoErr, code |-> RcLookup]
    /\ (~RcMapped /\ ~rcAllowFallback)
          => /\ rcResult.err.type = "missing code"
             /\ rcResult.err.detail = <<rcKind>> \o RcLookup
             /\ rcResult.code = <<>>

\* C13 as stated: after any resolveCode call the result is the mapped code,
\* else the ISO3 (fallback on), else an error naming kind and ISO3 (fallback
\* off); and the code map is as before
C13_ResolveCodeAsStated ==
    rcPc = "done" => (RcOutcome /\ rcCodes = rcCodesBefore)

\* C13, amended: the three outcomes hold for every ISO3 that is not empty
\* after trimming; an empty one fails with an error naming the kind, whatever
\* the map and the fallback policy; the code map is as before in every case
C13_ResolveCode ==
    rcPc = "done"
    => /\ RcLookup # <<>> => RcOutcome
       /\ RcLookup = <<>>
             => /\ rcResult.err.type = "iso3 is required"
                /\ rcResult.err.detail = <<rcKind>>
                /\ rcResult.code = <<>>
       /\ rcCodes = rcCodesBefore

\* a lower-case ISO3 absent from a non-empty map, fallback on: the upper-cased
\* ISO3 came back
C13_Witness ==
    /\ rcPc = "done"
    /\ rcIso3 = <<"u", "s", "a">>
    /\ rcCodes = KOR :> Code410
    /\ rcAllowFallback
    /\ rcResult = [err |-> NoErr, code |-> USA]

(***************************************************************************)
(* Properties of rateLimiter.Wait, as doRequestWithKey calls it.           *)
(***************************************************************************)
\* the request is inside Wait
InWait == reqPc \in {"wait", "parked"}

\* C14: Wait blocks while the bucket is empty and the context is live; it
\* returns nil only by removing exactly one token; and whenever the context
\* is already cancelled when Wait returns, Wait returns the context's error
\* and the bucket is as it was
C14_WaitContract ==
    [][ /\ (reqPc = "wait" /\ ~ctxDone /\ tokens = 0) => reqPc' \in {"wait", "parked"}
        /\ (reqPc = "parked" /\ wake = "none") => reqPc' = "parked"
        /\ (InWait /\ reqPc' = "get")
              => \/ tokens' = tokens - 1
                 \/ reqPc = "parked" /\ wake = "token" /\ tokens' = tokens
        /\ (InWait /\ ctxDone /\ reqPc' \notin {"wait", "parked"})
              => /\ reqPc' = "done"
                 /\ reqResult' = Fail(CtxErr)
                 /\ tokens' = tokens
      ]_vars

(***************************************************************************)
(* Properties of the from / to bounds.                                     *)
(***************************************************************************)
\* exactly one of from / to is given
SingleBound == (serFrom = <<>>) # (serTo = <<>>)

\* the one bound given
TheBound == IF serFrom = <<>> THEN serTo ELSE serFrom

\* C15: a FetchSeries call with exactly one of from / to given goes as the
\* call with both set to that value: comtrade derives the same years (or the
\* same error) and requests that one year only; wits resolves the year
\* parameter to that value, without asking for the latest year
C15_SingleBoundBothEnds ==
    SingleBound
    => /\ buildYearRange(serFrom, serTo, cfgLookback, CurrentYear)
            = buildYearRange(TheBound, TheBound, cfgLookback, CurrentYear)
       /\ resolveYearGiven(TrimSpace(serFrom), TrimSpace(serTo))
            = resolveYearGiven(TrimSpace(TheBound), TrimSpace(TheBound))
       /\ (serProvider = "comtrade" /\ serPc # "start")
             => IF parseYear(TheBound).ok
                THEN /\ Len(serLog) <= 1
                     /\ \A i \in 1..Len(serLog) : serLog[i].year = parseYear(TheBound).year
                     /\ serPc = "year" => (serYears = <<parseYear(TheBound).year>>
                                           /\ serLog = <<>>)
                     /\ (serPc = "done" /\ serRefsErr = NoErr /\ serSeries.kind = "err")
                           => (Len(serLog) = 1 \/ serSeries.err.type \in {"missing code"})
                ELSE /\ serLog = <<>>
                     /\ serPc = "done"
                     /\ serSeries.kind = "err"
       /\ (serProvider = "wits" /\ serPc # "start")
             => /\ serYearValue = TrimSpace(TheBound)
                /\ \A i \in 1..Len(witsLog) :
                      /\ witsLog[i].path = "trade"
                      /\ witsLog[i].year = TrimSpace(TheBound)

\* comtrade, only `to` given: one request, for that year
C15_Witness ==
    /\ serProvider = "comtrade"
    /\ serFrom = <<>>
    /\ serTo = Sprintf04d(BaseYear + 2)
    /\ serPc = "done"
    /\ Len(serLog) = 1
    /\ serLog[1].year = BaseYear + 2
    /\ serSeries.kind = "ok"

(***************************************************************************)
(* pickLatest, called on its own.                                          *)
(***************************************************************************)
\* the observations the lists are made of: months, a quarter, years, one of
\* no known granularity, and a year whose text does not parse
PickObservations ==
    { Obs("comtrade", KOR, USA, "M", BaseYear, 1, 1),
      Obs("comtrade", KOR, USA, "M", BaseYear, 2, 1),
      Obs("comtrade", KOR, USA, "Q", BaseYear + 1, 1, 1),
      Obs("comtrade", KOR, USA, "Y", BaseYear + 4, 0, 1),
      Obs("comtrade", KOR, USA, "Y", BaseYear - 1, 0, 1),
      Obs("comtrade", KOR, USA, "", BaseYear + 5, 0, 1),
      Obs("comtrade", KOR, USA, "Y", BaseYear * 10, 0, 1) }

PickLists == UNION {[1..n -> PickObservations] : n \in 0..MaxListLen}

NoPick == [ok |-> FALSE, obs |-> <<>>]

PlFrame == UNCHANGED <<reqVars, refVars, serVars, colVars, rcVars, npVars, gvVars, lyVars, lrVars>>

PlInit ==
    /\ plList \in PickLists
    /\ plPc = "call"
    /\ plResult = NoPick

\* no call
PlIdle ==
    /\ plList = <<>>
    /\ plPc = "call"
    /\ plResult = NoPick

PickCall ==
    /\ plPc = "call"
    /\ plResult' = pickLatest(plList)
    /\ plPc' = "done"
    /\ UNCHANGED plList
    /\ PlFrame

PlNext == PickCall

\* a is not below b under (priority, period key)
NotBelow(a, b) ==
    \/ periodPriority(a.ptype) > periodPriority(b.ptype)
    \/ /\ periodPriority(a.ptype) = periodPriority(b.ptype)
       /\ periodKey(a) >= periodKey(b)

\* C16: pickLatest on a non-empty list returns an element of the list below
\* which no element stands: none has a higher priority (Month 3, Quarter 2,
\* Year 1, unknown 0) and none of the same priority a larger period key; so
\* the Month observation of January of a year is picked over the Year
\* observation of four years later, in either order
C16_PickLatestMaximal ==
    /\ periodPriority("M") = 3 /\ periodPriority("Q") = 2
    /\ periodPriority("Y") = 1 /\ periodPriority("") = 0
    /\ (plPc = "done" /\ Len(plList) > 0)
       => /\ plResult.ok
          /\ Len(plResult.obs) = 1
          /\ \E i \in 1..Len(plList) : plList[i] = plResult.obs[1]
          /\ \A j \in 1..Len(plList) : NotBelow(plResult.obs[1], plList[j])
          /\ (\E i, j \in 1..Len(plList) :
                 /\ plList[i] = Obs("comtrade", KOR, USA, "M", BaseYear, 1, 1)
                 /\ plList[j] = Obs("comtrade", KOR, USA, "Y", BaseYear + 4, 0, 1))
             => plResult.obs[1].ptype = "M"
    /\ (plPc = "done" /\ Len(plList) = 0) => plResult = NoPick

\* the Year observation first, the Month observation of an earlier year second
C16_Witness ==
    /\ plPc = "done"
    /\ plList = << Obs("comtrade", KOR, USA, "Y", BaseYear + 4, 0, 1),
                   Obs("comtrade", KOR, USA, "M", BaseYear, 1, 1) >>
    /\ plResult = [ok |-> TRUE, obs |-> <<Obs("comtrade", KOR, USA, "M", BaseYear, 1, 1)>>]

(***************************************************************************)
(* periodFromRow of either provider, on the characters of the row's fields.*)
(***************************************************************************)
\* a row as getString reads it: a field is <<>> when it is absent or blank
Row(period, year, month, quarter) ==
    [period |-> period, year |-> year, month |-> month, quarter |-> quarter]

NoRow == Row(<<>>, <<>>, <<>>, <<>>)

\* comtrade periodFromRow
periodFromRow(row) ==
    LET np == normalizePeriod(row.period)
        y == parseYear(row.year)
    IN  IF row.period # <<>> /\ np.ok THEN np
        ELSE IF row.year # <<>> /\ y.ok THEN PeriodOf("Y", Sprintf04d(y.year))
        ELSE NoPeriod

\* wits periodFromRow
witsPeriodFromRow(row) ==
    LET np == normalizePeriod(row.period)
        y == parseYear(row.year)
        year == IF y.ok THEN Sprintf04d(y.year) ELSE row.year
        m == Atoi(row.month)
        q == Atoi(row.quarter)
    IN  IF row.period # <<>> /\ np.ok THEN np
        ELSE IF row.year = <<>> THEN NoPeriod
        ELSE IF row.month # <<>> /\ m.ok /\ m.n >= 1 /\ m.n <= 12
        THEN PeriodOf("M", year \o <<"-">> \o Sprintf02d(m.n))
        ELSE IF row.quarter # <<>> /\ q.ok /\ q.n >= 1 /\ q.n <= 4
        THEN PeriodOf("Q", year \o <<"-", "Q">> \o Itoa(q.n))
        ELSE PeriodOf("Y", year)

\* the year texts tried: of four digits, of five, of two, signed, none
YearTexts ==
    { Sprintf04d(BaseYear), <<"0", "9", "9", "9">>, Sprintf04d(BaseYear) \o <<"0">>,
      <<"2", "0">>, <<"-", "5">>, <<"+", "2", "0", "2">>, <<>> }

FourDigitYears == {Sprintf04d(BaseYear), <<"0", "9", "9", "9">>}

\* the month numbers tried: 1..12, and the two just outside
MonthNumbers == 0..13

MonthTexts ==
    {Sprintf02d(m) : m \in MonthNumbers} \cup {<<"5">>, <<"+", "5">>, <<"x">>, <<>>}

QuarterTexts == {<<"0">>, <<"1">>, <<"4">>, <<"5">>, <<>>}

QuarterSeps == {<<"Q">>, <<"-", "Q">>, <<"q">>, <<"-", "q">>}

\* the raw tokens tried
PeriodTokens ==
    {y \o m : y \in YearTexts, m \in MonthTexts}
    \cup {y \o <<"-">> \o m : y \in YearTexts, m \in MonthTexts}
    \cup {<<" ">> \o y \o <<"-">> \o m \o <<" ">> : y \in FourDigitYears, m \in MonthTexts}
    \cup {y \o sep \o q : y \in YearTexts, sep \in QuarterSeps, q \in QuarterTexts}

\* the rows tried
PeriodRows ==
    {Row(p, y, m, q) :
        p \in {<<>>, <<"x">>, Sprintf04d(BaseYear) \o <<"-", "0", "5">>},
        y \in YearTexts,
        m \in {<<>>, <<"5">>, <<"1", "3">>},
        q \in {<<>>, <<"2">>, <<"5">>}}

NpFrame == UNCHANGED <<reqVars, refVars, serVars, colVars, rcVars, plVars, gvVars, lyVars, lrVars>>

NpInit ==
    /\ \/ npFn = "normalizePeriod" /\ npRaw \in PeriodTokens /\ npRow = NoRow
       \/ /\ npFn \in {"comtrade.periodFromRow", "wits.periodFromRow"}
          /\ npRaw = <<>>
          /\ npRow \in PeriodRows
    /\ npPc = "call"
    /\ npResult = NoPeriod

\* no call
NpIdle ==
    /\ npFn = "normalizePeriod"
    /\ npRaw = <<>>
    /\ npRow = NoRow
    /\ npPc = "call"
    /\ npResult = NoPeriod

NormalizeCall ==
    /\ npPc = "call"
    /\ npFn = "normalizePeriod"
    /\ npResult' = normalizePeriod(npRaw)
    /\ npPc' = "done"
    /\ UNCHANGED <<npFn, npRaw, npRow>>
    /\ NpFrame

ComtradeRowCall ==
    /\ npPc = "call"
    /\ npFn = "comtrade.periodFromRow"
    /\ npResult' = periodFromRow(npRow)
    /\ npPc' = "done"
    /\ UNCHANGED <<npFn, npRaw, npRow>>
    /\ NpFrame

WitsRowCall ==
    /\ npPc = "call"
    /\ npFn = "wits.periodFromRow"
    /\ npResult' = witsPeriodFromRow(npRow)
    /\ npPc' = "done"
    /\ UNCHANGED <<npFn, npRaw, npRow>>
    /\ NpFrame

NpNext == NormalizeCall \/ ComtradeRowCall \/ WitsRowCall

\* C17: for a four-digit year and a month m, normalizePeriod on YYYYMM and on
\* YYYY-MM yields (Month, YYYY-MM) when m is in 1..12 and fails when m is 0
\* or 13
C17_MonthNormalized ==
    (npPc = "done" /\ npFn = "normalizePeriod")
    => \A y \in FourDigitYears, m \in MonthNumbers :
          (TrimSpace(npRaw) \in {y \o Sprintf02d(m), y \o <<"-">> \o Sprintf02d(m)})
          => IF m >= 1 /\ m <= 12
             THEN npResult = PeriodOf("M", y \o <<"-">> \o Sprintf02d(m))
             ELSE npResult = NoPeriod

\* December in the six-digit form
C17_Witness ==
    /\ npPc = "done"
    /\ npFn = "normalizePeriod"
    /\ npRaw = Sprintf04d(BaseYear) \o <<"1", "2">>
    /\ npResult = PeriodOf("M", Sprintf04d(BaseYear) \o <<"-", "1", "2">>)

\* the canonical form of a period of the given type
Canonical(ptype, period) ==
    LET fourDigitYear == Len(period) >= 4 /\ isDigits(SubSeq(period, 1, 4)) IN
    CASE ptype = "M" ->
            /\ Len(period) = 7 /\ fourDigitYear /\ period[5] = "-"
            /\ isDigits(SubSeq(period, 6, 7))
            /\ AtoiDigits(SubSeq(period, 6, 7)) \in 1..12
      [] ptype = "Q" ->
            /\ Len(period) = 7 /\ fourDigitYear /\ period[5] = "-" /\ period[6] = "Q"
            /\ period[7] \in {"1", "2", "3", "4"}
      [] ptype = "Y" -> Len(period) = 4 /\ fourDigitYear
      [] OTHER -> FALSE

\* C18: whatever normalizePeriod or either periodFromRow accepts comes out
\* with a type among Month, Quarter, Year and a period in exactly that type's
\* canonical form: YYYY-MM (month 01..12), YYYY-Qn (n in 1..4) or YYYY
C18_CanonicalPeriod ==
    (npPc = "done" /\ npResult.ok)
    => /\ npResult.ptype \in {"M", "Q", "Y"}
       /\ Canonical(npResult.ptype, npResult.period)

(***************************************************************************)
(* Properties of doRequest's key rotation after a failed attempt.          *)
(***************************************************************************)
\* the GETs up to the i-th that used the i-th GET's key
SameKeyUpTo(i) == {j \in 1..i : getLog[j].key = getLog[i].key}

\* the i-th GET was the last attempt doRequest permits for its key
LastPermitted(i) == Cardinality(SameKeyUpTo(i)) = Attempts(cfgMaxRetries)

\* a further key is configured after the i-th GET's key
FurtherKey(i) == KeyPos(getLog[i].key) < Len(Keys)

\* the i-th GET received a non-2xx status other than 401, 403 and 429
IsHardFailure(e) == Received(e) /\ ~Is2xx(e) /\ ~Is429(e) /\ ~IsAuth(e)

\* the request moved from the i-th GET's key to the next one, instead of
\* ending with the i-th GET's error
MovedToNextKey(i) ==
    /\ ~(i = NumGets /\ reqPc = "done"
           /\ reqResult = Fail(KeyResult(getLog[i].resp).err))
    /\ (i = NumGets /\ reqPc # "done") => keyIdx = KeyPos(getLog[i].key) + 1
    /\ i < NumGets => KeyPos(getLog[i + 1].key) = KeyPos(getLog[i].key) + 1

\* C19: a 429 received on the last permitted attempt (attempt number
\* MaxRetries+1) of a key that has a further key configured after it makes
\* the request go on with the next key; the 429 error is not returned
C19_Last429NextKey ==
    \A i \in 1..NumGets :
        (Is429(getLog[i]) /\ LastPermitted(i) /\ FurtherKey(i)) => MovedToNextKey(i)

\* C20: a non-2xx status other than 401, 403 and 429 (a 500) ends the use of
\* that key: no later GET uses it, the request goes on with the next key when
\* one is configured, and the error is returned only after the last key
C20_HardFailureNextKey ==
    \A i \in 1..NumGets :
        IsHardFailure(getLog[i])
        => /\ \A j \in (i + 1)..NumGets : getLog[j].key # getLog[i].key
           /\ IF FurtherKey(i)
              THEN MovedToNextKey(i)
              ELSE /\ i = NumGets
                   /\ reqPc = "done"
                   /\ reqResult = Fail(KeyResult(getLog[i].resp).err)

\* the part of C20 the code keeps: the key of a hard failure is never used
\* again, and on the last key the error is what doRequest returns
HardFailureNotRetried ==
    \A i \in 1..NumGets :
        IsHardFailure(getLog[i])
        => /\ \A j \in (i + 1)..NumGets : getLog[j].key # getLog[i].key
           /\ i = NumGets
           /\ reqPc = "done"
           /\ reqResult = Fail(KeyResult(getLog[i].resp).err)

(***************************************************************************)
(* The error doRequest returns once its keys are used up.                  *)
(***************************************************************************)
\* this step ends the request with an error while the last configured key is
\* in use
EndsOnLastKey ==
    /\ reqPc # "done"
    /\ reqPc' = "done"
    /\ reqResult'.kind = "err"
    /\ Len(Keys) > 0
    /\ keyIdx = Len(Keys)

\* the error of the last attempt made when this step ends the request: the
\* error of the response this step receives, the context's error of the Wait
\* this step fails in, or, during the back-off sleep, the error of the 429
\* response before it
LastAttemptErr ==
    IF reqPc = "get" THEN KeyResult(getLog'[Len(getLog')].resp).err
    ELSE IF reqPc \in {"wait", "parked"} THEN CtxErr
    ELSE KeyResult(getLog[NumGets].resp).err

\* C21 (as claimed): whenever doRequest returns an error after every
\* configured key has been tried, the error is the one of the last attempt
\* made, never the error of an earlier key or attempt
C21_LastErrorAsStated ==
    [][EndsOnLastKey => reqResult'.err = LastAttemptErr]_vars

\* C21: when doRequest returns an error after every configured key has been
\* tried, the error is the one of the last attempt made (the error of the last
\* key's last response or, when that attempt got no token, the context's
\* error), never the error of an earlier key or attempt; except that a
\* cancellation during the back-off sleep returns the context's error
C21_LastErrorReturned ==
    [][ EndsOnLastKey
        => reqResult'.err = IF reqPc \in {"sleep", "sleeping"} THEN CtxErr
                            ELSE LastAttemptErr
      ]_vars

\* a 401 on the first key, then a 403 on the second and last key: the 403
\* error is what doRequest returned
C21_Witness ==
    /\ reqPc = "done"
    /\ Len(Keys) = 2
    /\ NumGets = 2
    /\ getLog[1].key = Keys[1]
    /\ getLog[1].resp.status = 401
    /\ getLog[2].key = Keys[2]
    /\ getLog[2].resp = Resp(403, JsonDeniedBody, FALSE)
    /\ reqResult = Fail(KeyResult(getLog[2].resp).err)

(***************************************************************************)
(* How many GETs one request issues, and what each of them costs.          *)
(***************************************************************************)
\* the GETs issued with the k-th candidate key
GetsWithKey(k) == {i \in 1..NumGets : getLog[i].key = Keys[k]}

\* this step takes one token out of the bucket for the request: Wait's select
\* received it, or the refill handed it to the parked Wait
TakesToken ==
    \/ reqPc = "wait" /\ tokens' = tokens - 1
    \/ reqPc = "parked" /\ wake = "token"

\* C22: one request issues at most (number of candidate keys) x (MaxRetries+1)
\* GETs, at most MaxRetries+1 of them with any one key; and every GET is
\* preceded by its own token acquisition: a GET is issued only from the point
\* after Wait, that point is reached only by taking a token, and one GET
\* leaves it
C22_BoundedGets ==
    /\ [](/\ NumGets <= Len(Keys) * (cfgMaxRetries + 1)
          /\ \A k \in 1..Len(Keys) : Cardinality(GetsWithKey(k)) <= cfgMaxRetries + 1)
    /\ [][ /\ getLog' # getLog
              => (reqPc = "get" /\ reqPc' # "get" /\ Len(getLog') = NumGets + 1)
           /\ (reqPc # "get" /\ reqPc' = "get") => TakesToken
           /\ (reqPc = "get" /\ getLog' = getLog) => reqPc' = "get"
         ]_vars

\* two keys, MaxRetries 1: four GETs, two with each key
C22_Witness ==
    /\ Len(Keys) = 2
    /\ cfgMaxRetries = 1
    /\ NumGets = 4
    /\ Cardinality(GetsWithKey(1)) = 2
    /\ Cardinality(GetsWithKey(2)) = 2
    /\ reqPc = "done"

(***************************************************************************)
(* Failure and repetition of the reference load.                           *)
(***************************************************************************)
\* the cached reference values and their flag
RefCache == <<refsLoaded, reporters, reporterCode, partnerCode>>

\* caller g starts an ensureReferences call in this step
StartsCall(g) == refCalls'[g] = refCalls[g] + 1

\* this step issues a reference request
IssuesRefRequest == reportersReqs' # reportersReqs \/ partnersReqs' # partnersReqs

\* C23: a failing ensureReferences (at the reporters fetch or at the partners
\* fetch, after the reporters were fetched) leaves refsLoaded and the three
\* cached values as they were; a call that finds refsLoaded false attempts the
\* load (again); a call that starts once a load has succeeded issues no
\* reference request: requests come only from calls that found the flag
\* false, and the flag never goes back to false
C23_FailedLoadRetried ==
    [][ /\ refFailures' # refFailures => UNCHANGED RefCache
        /\ \A g \in Callers :
              /\ (StartsCall(g) /\ ~refsLoaded) => refPc'[g] = "reporters"
              /\ (StartsCall(g) /\ refsLoaded)
                    => (refPc'[g] = "idle" /\ ~IssuesRefRequest)
              /\ (refPc[g] = "idle" /\ refPc'[g] # "idle") => StartsCall(g)
        /\ IssuesRefRequest
              => \E g \in Callers : refPc[g] \in {"reporters", "partners"}
        /\ refsLoaded => refsLoaded'
      ]_vars

\* a load failed at the partners fetch, the next call loaded again and
\* succeeded, and a third call found the flag set and requested nothing
C23_Witness ==
    /\ refFailures = 1
    /\ reportersReqs = 2
    /\ partnersReqs = 2
    /\ loadsStarted = 2
    /\ refsLoaded
    /\ reporters = 2
    /\ refCalls[1] + refCalls[2] = 3
    /\ \A g \in Callers : refPc[g] = "idle"

(***************************************************************************)
(* The token bucket.                                                       *)
(***************************************************************************)
\* a refill tick finds a Wait parked on the empty bucket: the token goes to
\* that Wait without entering the bucket
Handoff == reqPc = "parked" /\ wake = "none" /\ wake' = "token"

\* a Wait's select receives a token from the bucket and returns nil
TakesFromBucket == reqPc = "wait" /\ reqPc' = "get"

\* C24: the bucket starts with burst tokens and holds between 0 and burst
\* tokens in every state; a step changes it by one token at most; it loses a
\* token exactly when a Wait receives one and returns nil, and a parked Wait
\* returns nil only on the one token a refill tick handed to it while the
\* bucket was empty; so the Waits that return nil between two refill ticks
\* each take a token out of a bucket of at most burst
C24_TokenBucket ==
    /\ tokens = defaultRateLimitBurst
    /\ [](tokens \in 0..defaultRateLimitBurst)
    /\ [][ /\ tokens' \in {tokens - 1, tokens, tokens + 1}
           /\ (tokens' = tokens - 1) <=> TakesFromBucket
           /\ (reqPc = "parked" /\ reqPc' = "get") => (wake = "token" /\ tokens' = tokens)
           /\ Handoff => (tokens = 0 /\ tokens' = 0 /\ reqPc' = "parked")
           /\ (reqPc # "get" /\ reqPc' = "get") => reqPc \in {"wait", "parked"}
         ]_vars

\* three Waits have returned nil on a bucket of two, and the bucket is full
\* again
C24_Witness ==
    /\ NumGets >= 3
    /\ tokens = defaultRateLimitBurst

(***************************************************************************)
(* Malformed indices in a wits SDMX payload.                               *)
(***************************************************************************)
\* the payload of the trade request of a finished wits call
TradePayload == witsLog[Len(witsLog)].payload

\* a finished wits call whose trade request brought a payload that has a
\* dataset, an observation dimension and at least one series
ParsedPayload ==
    /\ serProvider = "wits"
    /\ serPc = "done"
    /\ Len(witsLog) > 0
    /\ witsLog[Len(witsLog)].kind = "payload"
    /\ TradePayload.dataSets > 0
    /\ TradePayload.hasObsDim
    /\ Len(TradePayload.series) > 0

\* every component of series s's key is an integer in the range of its dimension
KeyWellFormed(pl, s) ==
    LET key == pl.series[s].key IN
    /\ Len(key) = Len(pl.seriesDims)
    /\ \A i \in 1..Len(key) :
          /\ key[i].isInt
          /\ key[i].val >= 0
          /\ key[i].val < Len(pl.seriesDims[i].values)

\* observation j of series s has an integer key in the range of the time
\* values, a period that normalizes and a value that parses
ObsUsable(pl, s, j) ==
    LET o == pl.series[s].observations[j] IN
    /\ o.key.isInt
    /\ o.key.val >= 0
    /\ o.key.val < Len(pl.timeValues)
    /\ pl.timeValues[o.key.val + 1].ok
    /\ o.value

\* the observations no malformed index concerns
WellIndexed(pl) ==
    {<<s, j>> \in (1..Len(pl.series)) \X (1..MaxListLen + 2) :
        /\ j <= Len(pl.series[s].observations)
        /\ KeyWellFormed(pl, s)
        /\ ObsUsable(pl, s, j)}

\* C25: a malformed index (a non-integer or out-of-range component of a series
\* key, a non-integer or out-of-range observation key) makes parseSDMXObservations
\* skip the observation it concerns and nothing else: the well-indexed
\* observations are all returned and the response does not fail while there is
\* one; an observation whose series key has an out-of-range component is not
\* returned under the request's reporter and partner
C25_MalformedIndexSkipsOne ==
    ParsedPayload
    => /\ WellIndexed(TradePayload) # {} => serSeries.kind = "ok"
       /\ serSeries.kind = "ok"
             => Len(serSeries.obs) = Cardinality(WellIndexed(TradePayload))

\* the part of C25 the code keeps: a malformed observation key, or a series key
\* with a non-integer component, takes out the observations it concerns and
\* the others are returned
ObsKeySkipsOne ==
    ParsedPayload
    => /\ WellIndexed(TradePayload) # {} => serSeries.kind = "ok"
       /\ serSeries.kind = "ok"
             => Len(serSeries.obs) >= Cardinality(WellIndexed(TradePayload))

(***************************************************************************)
(* collectObservations and the years the store already holds.              *)
(***************************************************************************)
\* the period of a stored key falls in year y
FallsInYear(key, y) ==
    /\ Canonical(key.ptype, key.period)
    /\ AtoiDigits(SubSeq(key.period, 1, 4)) = y

\* the store lists a key of the slice whose period falls in year y
StoredYear(y) == \E key \in storedKeys : FallsInYear(key, y)

\* the provider calls collectObservations has made for the slice it is in,
\* as they stand after this step
SliceCalls == {i \in 1..Len(colCalls') : colCalls'[i].slice = colIdx}

\* this step is collectObservations returning
SliceReturns == colPc \in {"latest", "series"} /\ colPc' # colPc

\* collectObservations returns with a latest observation whose year the store
\* holds, and no FetchSeries call of the slice brought an observation
NothingNew ==
    /\ SliceReturns
    /\ \E i \in SliceCalls :
          /\ colCalls'[i].op = "FetchLatest"
          /\ Len(colCalls'[i].obs) = 1
          /\ StoredYear(colCalls'[i].obs[1].year)
    /\ \A i \in SliceCalls :
          colCalls'[i].op = "FetchSeries" => colCalls'[i].obs = <<>>

\* C26: collectObservations calls FetchSeries for no target year in which a
\* stored key of the slice falls; and when it returns with nothing fetched and
\* the latest observation's year stored, it hands no observation to the run
C26_StoredYearsNotRefetched ==
    /\ [](\A i \in 1..Len(colCalls) :
             colCalls[i].op = "FetchSeries" => ~StoredYear(Atoi(colCalls[i].from).n))
    /\ [][NothingNew => colObservations' = colObservations]_vars

\* history of one year, latest observation of BaseYear+1 stored as a month:
\* only BaseYear was requested, it had no records, and the slice brought
\* nothing
C26_Witness ==
    /\ historyYears = 1
    /\ storedKeys = {StoreKey("M", Sprintf04d(BaseYear + 1) \o <<"-", "0", "5">>)}
    /\ Len(colCalls) = 2
    /\ colCalls[1].op = "FetchLatest"
    /\ colCalls[1].obs # <<>>
    /\ colCalls[1].obs[1].year = BaseYear + 1
    /\ colCalls[2].op = "FetchSeries"
    /\ colCalls[2].from = Sprintf04d(BaseYear)
    /\ colCalls[2].obs = <<>>
    /\ colIdx = 2
    /\ colObservations = <<>>
    /\ skipped = 1

(***************************************************************************)
(* getValue (the same in both providers): the exact matches in the order   *)
(* of the candidates, then the row's keys in the order the map iteration   *)
(* yields them, which Go leaves unspecified.                               *)
(***************************************************************************)
\* the keys a row may carry
RowKeys == {<<"k">>, <<"K">>, <<"a">>, <<"A">>, <<"1">>}

\* the rows tried: up to MaxListLen keys, each with a value of its own
Rows == {[k \in ks |-> <<"v">> \o k] : ks \in {S \in SUBSET RowKeys : Cardinality(S) <= MaxListLen}}

\* the candidate lists tried
CandidateLists == {<<<<"k">>, <<"a">>>>, <<<<"a">>, <<"k">>>>, <<<<"k">>>>, <<<<"K">>, <<"a">>>>}

\* the orders in which a range over the row may yield its keys
IterationOrders(row) ==
    {o \in [1..Cardinality(DOMAIN row) -> DOMAIN row] :
        \A i, j \in 1..Cardinality(DOMAIN row) : o[i] = o[j] => i = j}

Found(value) == [ok |-> TRUE, value |-> value]

NotFound == [ok |-> FALSE, value |-> <<>>]

\* getValue, with the order of its range over the row
getValue(row, keys, order) ==
    LET exact == {i \in 1..Len(keys) : keys[i] \in DOMAIN row}
        folded == {j \in 1..Len(order) :
                      \E i \in 1..Len(keys) : EqualFold(order[j], keys[i])}
    IN  IF exact # {}
        THEN Found(row[keys[CHOOSE i \in exact : \A h \in exact : i <= h]])
        ELSE IF folded # {}
        THEN Found(row[order[CHOOSE j \in folded : \A h \in folded : j <= h]])
        ELSE NotFound

GvFrame == UNCHANGED <<reqVars, refVars, serVars, colVars, rcVars, plVars, npVars, lyVars, lrVars>>

GvInit ==
    /\ gvRow \in Rows
    /\ gvKeys \in CandidateLists
    /\ gvPc = "call"
    /\ gvResult = NotFound

\* no getValue call is followed
GvIdle ==
    /\ gvRow = <<>>
    /\ gvKeys = <<>>
    /\ gvPc = "call"
    /\ gvResult = NotFound

GetValueCall ==
    /\ gvPc = "call"
    /\ \E order \in IterationOrders(gvRow) :
          gvResult' = getValue(gvRow, gvKeys, order)
    /\ gvPc' = "done"
    /\ UNCHANGED <<gvRow, gvKeys>>
    /\ GvFrame

GvNext == GetValueCall

\* the candidates present in the row by exact match
ExactCandidates == {i \in 1..Len(gvKeys) : gvKeys[i] \in DOMAIN gvRow}

\* the candidates that match some key of the row case-insensitively
FoldedCandidates ==
    {i \in 1..Len(gvKeys) : \E k \in DOMAIN gvRow : EqualFold(k, gvKeys[i])}

\* C27: getValue's result is fixed by the row and the ordered candidates: the
\* value of the first candidate present by exact match, else a value of a row
\* key that the first case-insensitively matching candidate matches, whatever
\* the order in which the row yields its keys
C27_GetValueDetermined ==
    gvPc = "done"
    => IF ExactCandidates # {}
       THEN LET i == CHOOSE c \in ExactCandidates : \A h \in ExactCandidates : c <= h
            IN  gvResult = Found(gvRow[gvKeys[i]])
       ELSE IF FoldedCandidates # {}
       THEN LET i == CHOOSE c \in FoldedCandidates : \A h \in FoldedCandidates : c <= h
            IN  /\ gvResult.ok
                /\ \E k \in DOMAIN gvRow :
                      EqualFold(k, gvKeys[i]) /\ gvResult.value = gvRow[k]
       ELSE gvResult = NotFound

\* the part of C27 the code keeps: exact matches go by the candidates' order,
\* and a row without any match yields nothing
ExactMatchDetermined ==
    gvPc = "done"
    => IF ExactCandidates # {}
       THEN LET i == CHOOSE c \in ExactCandidates : \A h \in ExactCandidates : c <= h
            IN  gvResult = Found(gvRow[gvKeys[i]])
       ELSE gvResult.ok <=> FoldedCandidates # {}

(***************************************************************************)
(* wits latestYear for one (reporter, indicator), called by several        *)
(* goroutines.  Each mutex-protected section is one step; the request and  *)
(* its parsing happen outside the mutex.                                   *)
(***************************************************************************)
\* the cache key of every call followed here
TheCacheKey == cacheKey(RawReporter)

LyFrame == UNCHANGED <<reqVars, refVars, serVars, colVars, rcVars, plVars, npVars, gvVars, lrVars>>

\* the state after NewWithConfig: an empty yearMap
LyIdle ==
    /\ lyMap = <<>>
    /\ lyPc = [g \in Callers |-> "idle"]
    /\ lyLatest = [g \in Callers |-> <<>>]
    /\ lyCalls = [g \in Callers |-> 0]
    /\ lyReqs = 0
    /\ lyWrites = 0
    /\ lyFailures = 0

\* what the first mutex section decides: return the cached year when the key
\* is in the map
CacheHit(map, key) == key \in DOMAIN map

\* latestYear: Lock, look the key up, Unlock
LyLookup(g) ==
    /\ lyPc[g] = "idle"
    /\ lyCalls[g] < MaxRefCalls
    /\ lyCalls' = [lyCalls EXCEPT ![g] = @ + 1]
    /\ IF CacheHit(lyMap, TheCacheKey)
       THEN UNCHANGED lyPc
       ELSE lyPc' = [lyPc EXCEPT ![g] = "request"]
    /\ UNCHANGED <<lyMap, lyLatest, lyReqs, lyWrites, lyFailures>>
    /\ LyFrame

\* latestYear: the data-availability request, the decoding, the largest year
LyRequest(g) ==
    /\ lyPc[g] = "request"
    /\ lyReqs' = lyReqs + 1
    /\ \E answer \in AvailAnswers :
          LET maxYear == IF answer.kind = "err" THEN 0 ELSE maxYearOf(answer.years, 1, 0)
          IN  IF maxYear = 0
              THEN /\ lyPc' = [lyPc EXCEPT ![g] = "idle"]
                   /\ lyFailures' = lyFailures + 1
                   /\ UNCHANGED lyLatest
              ELSE /\ lyPc' = [lyPc EXCEPT ![g] = "store"]
                   /\ lyLatest' = [lyLatest EXCEPT ![g] = Itoa(maxYear)]
                   /\ UNCHANGED lyFailures
    /\ UNCHANGED <<lyMap, lyCalls, lyWrites>>
    /\ LyFrame

\* latestYear: Lock, yearMap[cacheKey] = latest, Unlock
LyStore(g) ==
    /\ lyPc[g] = "store"
    /\ lyMap' = (TheCacheKey :> lyLatest[g]) @@ lyMap
    /\ lyWrites' = lyWrites + 1
    /\ lyPc' = [lyPc EXCEPT ![g] = "idle"]
    /\ lyLatest' = [lyLatest EXCEPT ![g] = <<>>]
    /\ UNCHANGED <<lyCalls, lyReqs, lyFailures>>
    /\ LyFrame

LyNext ==
    \/ \E g \in Callers : LyLookup(g)
    \/ \E g \in Callers : LyRequest(g)
    \/ \E g \in Callers : LyStore(g)

\* C28: for one cache key the year cache is filled exactly once per Provider,
\* however the latestYear calls interleave: while no lookup has failed the
\* data-availability endpoint is requested at most once, the key is written
\* at most once (a cached key is never overwritten), a call that finds the key
\* cached requests nothing, and a failed lookup leaves the cache as it was
C28_YearCachedOnce ==
    /\ []((lyFailures = 0 => lyReqs <= 1) /\ lyWrites <= 1)
    /\ [][ /\ lyFailures' # lyFailures => lyMap' = lyMap
           /\ \A g \in Callers :
                 (lyCalls'[g] # lyCalls[g] /\ TheCacheKey \in DOMAIN lyMap)
                    => (lyPc'[g] = "idle" /\ lyReqs' = lyReqs)
         ]_vars

\* the part of C28 the code keeps: a call that finds the key cached requests
\* nothing, a failed lookup leaves the cache as it was, and the key stays
\* cached
CachedKeyNotRequested ==
    [][ /\ lyFailures' # lyFailures => lyMap' = lyMap
        /\ \A g \in Callers :
              (lyCalls'[g] # lyCalls[g] /\ TheCacheKey \in DOMAIN lyMap)
                 => (lyPc'[g] = "idle" /\ lyReqs' = lyReqs)
        /\ TheCacheKey \in DOMAIN lyMap => TheCacheKey \in DOMAIN lyMap'
      ]_vars

(***************************************************************************)
(* The cached reference values as one unit.                                *)
(***************************************************************************)
\* C29: refsLoaded, reporters, reporterCode and partnerCode change only
\* together, in the one mutex section that publishes a finished load: in every
\* state, however ensureReferences and ListReporters calls interleave,
\* refsLoaded implies that reporters is not empty and that the three values
\* come from one and the same successful load; and ListReporters returns such
\* a list
C29_ReferencesPublishedWhole ==
    /\ [](/\ refsLoaded => (reporters # 0 /\ reporterCode = reporters
                                          /\ partnerCode = reporters)
          /\ ~refsLoaded => (reporters = 0 /\ reporterCode = 0 /\ partnerCode = 0)
          /\ \A g \in Callers : refListed[g] \in 0..loadsStarted)
    /\ [][ /\ RefCache' # RefCache
              => /\ refsLoaded'
                 /\ \E g \in Callers :
                       /\ refPc[g] = "publish"
                       /\ refPc'[g] = "idle"
                       /\ refLocal[g] # 0
                       /\ reporters' = refLocal[g]
                       /\ reporterCode' = refLocal[g]
                       /\ partnerCode' = refLocal[g]
           /\ \A g \in Callers :
                 refListed'[g] # refListed[g]
                    => (refsLoaded /\ refListed'[g] = reporters /\ reporters # 0)
         ]_vars

\* two loads ran concurrently: ListReporters returned the first load's list
\* to caller 1, then the second load replaced all three values
C29_Witness ==
    /\ refsLoaded
    /\ reporters = 2
    /\ reporterCode = 2
    /\ partnerCode = 2
    /\ refListed[1] = 1

(***************************************************************************)
(* When runCollector writes to the store.                                  *)
(***************************************************************************)
\* a provider call of the run has failed with the quota error
QuotaSeen == \E i \in 1..Len(colCalls) : colCalls[i].err = "quota"

\* C30: runCollector calls UpsertObservations at most once per run, and only
\* once the loop over all (reporter, partner, flow) triples is through; a run
\* in which a provider call failed with the quota error never calls it, so
\* the store, which the run writes through that call only, is left as it was
\* and what the earlier triples brought is not persisted
C30_UpsertOnceAfterLoop ==
    /\ [](/\ upserts <= 1
          /\ upserts = 1 => (colPc = "done" /\ colIdx = Len(ColTriples) + 1)
          /\ QuotaSeen => upserts = 0)
    /\ [][ upserts' # upserts
              => (colPc = "loop" /\ colIdx > Len(ColTriples) /\ ~QuotaSeen)
         ]_vars

\* the run ended on the quota error with observations of earlier triples in
\* hand and slices left, and nothing was written
C30_Witness ==
    /\ colPc = "done"
    /\ QuotaSeen
    /\ colResult = SerFail(ErrQuotaExceeded)
    /\ Len(colObservations) >= 1
    /\ upserts = 0

(***************************************************************************)
(* Specifications.                                                         *)
(***************************************************************************)
InitReq == ReqInit /\ RefIdle /\ SerIdle /\ ColIdle /\ RcIdle /\ PlIdle /\ NpIdle /\ GvIdle /\ LyIdle /\ LrIdle

SpecReq == InitReq /\ [][ReqNext]_vars

\* RefIdle is the state after NewWithConfig
InitRefs == RefIdle /\ ReqIdle /\ SerIdle /\ ColIdle /\ RcIdle /\ PlIdle /\ NpIdle /\ GvIdle /\ LyIdle /\ LrIdle

SpecRefs == InitRefs /\ [][RefNext]_vars

\* one FetchSeries or FetchLatest call on one provider
InitSeries == SerInit /\ ReqIdle /\ RefIdle /\ ColIdle /\ RcIdle /\ PlIdle /\ NpIdle /\ GvIdle /\ LyIdle /\ LrIdle

SpecSeries == InitSeries /\ [][SerNext]_vars

\* one run of the collector
InitCollector == ColInit /\ ReqIdle /\ RefIdle /\ SerIdle /\ RcIdle /\ PlIdle /\ NpIdle /\ GvIdle /\ LyIdle /\ LrIdle

SpecCollector == InitCollector /\ [][ColNext]_vars

\* one resolveCode call
InitResolve == RcInit /\ ReqIdle /\ RefIdle /\ SerIdle /\ ColIdle /\ PlIdle /\ NpIdle /\ GvIdle /\ LyIdle /\ LrIdle

SpecResolve == InitResolve /\ [][RcNext]_vars

\* one pickLatest call
InitPick == PlInit /\ ReqIdle /\ RefIdle /\ SerIdle /\ ColIdle /\ RcIdle /\ NpIdle /\ GvIdle /\ LyIdle /\ LrIdle

SpecPick == InitPick /\ [][PlNext]_vars

\* one normalizePeriod or periodFromRow call
InitPeriod == NpInit /\ ReqIdle /\ RefIdle /\ SerIdle /\ ColIdle /\ RcIdle /\ PlIdle /\ GvIdle /\ LyIdle /\ LrIdle

SpecPeriod == InitPeriod /\ [][NpNext]_vars

\* one getValue call
InitGetValue == GvInit /\ ReqIdle /\ RefIdle /\ SerIdle /\ ColIdle /\ RcIdle /\ PlIdle /\ NpIdle /\ LyIdle /\ LrIdle

SpecGetValue == InitGetValue /\ [][GvNext]_vars

\* LyIdle is the state after NewWithConfig
InitLatestYear == LyIdle /\ ReqIdle /\ RefIdle /\ SerIdle /\ ColIdle /\ RcIdle /\ PlIdle /\ NpIdle /\ GvIdle /\ LrIdle

SpecLatestYear == InitLatestYear /\ [][LyNext]_vars

=============================================================================
